---- MODULE Spec2Model ----
(***************************************************************************)
(* Hemispheres scraper: listing discovery (listing_crawler.py) and batch   *)
(* orchestration (scraper.py).                                             *)
(*                                                                         *)
(* Strings that the code inspects (URL paths) are sequences of tokens: a   *)
(* token is "/", a name, or a suffix such as ".html", so that "in",        *)
(* endswith, lower and split are computed on the text and not looked up.   *)
(* A URL is the record urlparse yields (scheme, netloc, path, query,       *)
(* fragment). What the browser returns (the anchors of a page, whether a   *)
(* call raises) is an input of the action that makes the call.             *)
(***************************************************************************)
EXTENDS Integers, Sequences, FiniteSets, TLC

VARIABLES
    pc,              \* position of the running operation
    call,            \* the running public operation and its arguments
    state,           \* ListingCrawler.state
    all_urls,        \* _load_all_articles: the accumulator set
    attempts,        \* _load_all_articles: attempts
    previous_count,  \* _load_all_articles: previous_count of the running cycle
    listed_urls,     \* crawl_listing: all_urls, the list _load_all_articles returned
    urls,            \* scrape_batch: urls
    valid_urls,      \* scrape_batch: valid_urls
    results,         \* scrape_batch: results
    open_browsers,   \* browsers launched and not yet closed
    outcome,         \* how the public operation ended: value returned or exception raised
    thrown,          \* history: the exception as first thrown, and the call that threw it
    progress_calls,  \* history: the calls of progress_callback, in order
    faults,          \* history: per item scraped, the step that failed ("none": no step)
    discovery,       \* history: normalized links in order of first accumulation
    cycles,          \* history: loop iterations of _load_all_articles begun
    reveals,         \* history: reveal clicks that succeeded
    allMore,         \* history: every cycle so far clicked and got strictly more links
    stagnated,       \* history: some click that succeeded added no link
    overrun,         \* history: a cycle was begun after such a click
    args,            \* main: the parsed command line
    mode,            \* main: the mode the flags select ("none": main is not running)
    exit_code,       \* main: the value main returns, an Optional[int]
    place_queue,     \* main: the (place_name, place_url) pairs still to scrape
    all_results,     \* main: all_results, as (place_name, results) pairs
    fn_in,           \* a pure function under evaluation: its arguments
    fn_out,          \* a pure function under evaluation: its result
    index_page,      \* history: the navigations to the index page, the anchors it held
    unmerged,        \* history: links extracted after a click that all_urls does not hold
    sessions,        \* history: the browsers launched by the running operation, in order,
                     \*          each with the number of items scraped through its page
    earlier          \* history: the states earlier calls on this crawler ended with

loaderVars == <<all_urls, attempts, previous_count, cycles, reveals, allMore, stagnated,
                overrun>>

batchVars == <<urls, valid_urls, results, progress_calls, faults>>

mainVars == <<args, mode, exit_code, place_queue, all_results>>

evalVars == <<fn_in, fn_out>>

vars == <<pc, call, state, listed_urls, discovery, open_browsers, outcome, thrown,
          loaderVars, batchVars, mainVars, evalVars, index_page, unmerged, sessions, earlier>>

(***************************************************************************)
(* Bounds of the model                                                     *)
(***************************************************************************)
\* anchors one extraction returns at most
MaxLinks == 2

\* the largest max_articles a caller passes
MaxArticles == 3

(***************************************************************************)
(* Text                                                                    *)
(***************************************************************************)
Range(s) == {s[i] : i \in 1..Len(s)}

\* Python: sub in s
Contains(s, sub) ==
    \E i \in 1..(Len(s) - Len(sub) + 1) : SubSeq(s, i, i + Len(sub) - 1) = sub

\* Python: s.endswith(suf)
EndsWith(s, suf) ==
    /\ Len(suf) <= Len(s)
    /\ SubSeq(s, Len(s) - Len(suf) + 1, Len(s)) = suf

\* str.lower on one token
LowerTok(t) ==
    CASE t = "Africa" -> "africa"
      [] t = "Asia"   -> "asia"
      [] t = ".HTML"  -> ".html"
      [] t = "HTTPS"  -> "https"
      [] t = "Places-To-Go" -> "places-to-go"
      [] t = "Things-To-Do" -> "things-to-do"
      [] t = "INDEX"  -> "index"
      [] OTHER        -> t

\* Python: s.lower()
Lower(s) == [i \in 1..Len(s) |-> LowerTok(s[i])]

(***************************************************************************)
(* URLs                                                                    *)
(***************************************************************************)
NoSlug == ""

Href(scheme, path, query, fragment) ==
    [scheme |-> scheme, netloc |-> "www.united.com", path |-> path,
     query |-> query, fragment |-> fragment]

pathA == <<"/", "places-to-go", "/", "africa", "/", "a", ".html">>
pathB == <<"/", "places-to-go", "/", "asia", "/", "b", ".html">>
pathT == <<"/", "places-to-go", "/", "africa", "/", "things-to-do", "/", "t", ".html">>
pathF == <<"/", "places-to-go", "/", "africa", "/", "f", ".html">>

pathIA == <<"/", "places-to-go", "/", "africa", "/", "index", ".html">>
pathIB == <<"/", "places-to-go", "/", "asia", "/", "index", ".html">>

\* the anchors a listing page may hold (a.href: already absolute)
ListingHrefs ==
    { Href("https", pathA, "", ""),
      Href("https", pathA, "", "top"),
      Href("https", pathB, "", ""),
      Href("https", pathT, "", ""),
      Href("ftp", pathF, "", "") }

\* what one page.evaluate of the anchors can return
PageLists == UNION { [1..n -> ListingHrefs] : n \in 0..MaxLinks }

\* the href attributes the anchors of the index page may hold
IndexHrefs ==
    { Href("https", pathIA, "", ""),
      Href("https", pathIA, "", "top"),
      Href("https", pathIB, "", ""),
      Href("https", pathA, "", "") }

\* what the page.evaluate of _extract_place_urls can be given to filter
IndexLists == UNION { [1..n -> IndexHrefs] : n \in 0..MaxLinks }

\* place_slug values a caller passes
Slugs == {NoSlug, "africa"}

\* f"{parsed.scheme}://{parsed.netloc}{parsed.path}", as urlparse reads it back
Normalize(href) ==
    [scheme |-> href.scheme, netloc |-> href.netloc, path |-> href.path]

\* the CSS selector a[href*="/places-to-go/"] or a[href*="/places-to-go/{place_slug}/"]
SelectorMatches(href, place_slug) ==
    IF place_slug # NoSlug
    THEN Contains(href.path, <<"/", "places-to-go", "/", place_slug, "/">>)
    ELSE Contains(href.path, <<"/", "places-to-go", "/">>)

RECURSIVE QuerySelectorAll(_, _)
QuerySelectorAll(anchors, place_slug) ==
    IF anchors = <<>> THEN <<>>
    ELSE IF SelectorMatches(Head(anchors), place_slug)
         THEN <<Head(anchors)>> \o QuerySelectorAll(Tail(anchors), place_slug)
         ELSE QuerySelectorAll(Tail(anchors), place_slug)

RECURSIVE NormalizeDedup(_, _)
NormalizeDedup(hrefs, seen) ==
    IF hrefs = <<>> THEN <<>>
    ELSE LET normalized == Normalize(Head(hrefs))
         IN  IF normalized \notin seen
             THEN <<normalized>> \o NormalizeDedup(Tail(hrefs), seen \cup {normalized})
             ELSE NormalizeDedup(Tail(hrefs), seen)

\* ListingCrawler._extract_article_links on a page holding `anchors`
_extract_article_links(anchors, place_slug) ==
    NormalizeDedup(QuerySelectorAll(anchors, place_slug), {})

\* every result _extract_article_links can give, per place_slug, over the pages of the model
Extractions ==
    [place_slug \in Slugs |->
        { _extract_article_links(anchors, place_slug) : anchors \in PageLists }]

\* ListingCrawler._is_valid_article_url
_is_valid_article_url(url, place_slug) ==
    LET path == Lower(url.path)
    IN  /\ Contains(path, <<"/", "places-to-go", "/">>)
        /\ ~Contains(path, <<"/", "things-to-do", "/">>)
        /\ (place_slug # NoSlug => Contains(path, <<"/", LowerTok(place_slug), "/">>))
        /\ ~(EndsWith(path, <<"/", "index", ".html">>) \/ EndsWith(path, <<"/", "index">>))
        /\ EndsWith(path, <<".html">>)

(***************************************************************************)
(* Sequences                                                               *)
(***************************************************************************)
\* the orders in which iterating a Python set can yield its elements
RECURSIVE Orderings(_)
Orderings(S) ==
    IF S = {} THEN {<<>>}
    ELSE UNION { { <<x>> \o rest : rest \in Orderings(S \ {x}) } : x \in S }

RECURSIVE FilterValid(_, _, _)
FilterValid(us, place_slug, keep) ==
    IF us = <<>> THEN <<>>
    ELSE IF _is_valid_article_url(Head(us), place_slug) = keep
         THEN <<Head(us)>> \o FilterValid(Tail(us), place_slug, keep)
         ELSE FilterValid(Tail(us), place_slug, keep)

RECURSIVE AppendNew(_, _)
AppendNew(order, us) ==
    IF us = <<>> THEN order
    ELSE IF Head(us) \in Range(order)
         THEN AppendNew(order, Tail(us))
         ELSE AppendNew(Append(order, Head(us)), Tail(us))

(***************************************************************************)
(* ListingCrawler                                                          *)
(***************************************************************************)
max_attempts == 50

ListingUrl == "listing"

\* the listing a later call on the same crawler is made for
OtherListingUrl == "other listing"

\* the listing_url argument of a call: each crawler is first used for ListingUrl
ListingFor(calls) == IF calls = <<>> THEN ListingUrl ELSE OtherListingUrl

\* ListingCrawler.__init__
NewState ==
    [listing_url |-> "", total_found |-> 0, valid_urls |-> <<>>,
     skipped_urls |-> <<>>, processed |-> <<>>, remaining |-> <<>>]

NoOutcome == [kind |-> "none", value |-> <<>>, exc |-> ""]
Returned(v) == [kind |-> "returned", value |-> v, exc |-> ""]
Raised(e) == [kind |-> "raised", value |-> <<>>, exc |-> e]

NoThrow == [exc |-> "", at |-> ""]

\* what a call into the browser can raise; KeyboardInterrupt is no Exception
Failures == {"Error", "KeyboardInterrupt"}

\* an Optional[int]: <<>> is None, <<n>> is the integer n
None == <<>>

NoCall == [op |-> "none", place_slug |-> NoSlug, max_articles |-> None,
           progress_callback |-> FALSE]

\* the locals of _load_all_articles (and their history) as a call starts with them
ResetLocals ==
    /\ all_urls' = {}
    /\ attempts' = 0
    /\ previous_count' = 0
    /\ cycles' = 0
    /\ reveals' = 0
    /\ allMore' = TRUE
    /\ stagnated' = FALSE
    /\ overrun' = FALSE

\* main is not running: no command line, no mode, no exit code
NoArgs == [url |-> FALSE, listing_url |-> FALSE, batch |-> FALSE,
           all_places |-> FALSE, places |-> None]

NoMain ==
    /\ mode = "none"
    /\ exit_code = None
    /\ place_queue = <<>>
    /\ all_results = <<>>

\* no pure function is under evaluation
NoEval ==
    /\ fn_in = <<>>
    /\ fn_out = <<>>

\* no index page was opened
NoIndexPage == [navigations |-> 0, anchors |-> <<>>]

\* p.firefox.launch(...) returns a browser: one more session, nothing scraped in it yet
Opened(ss, kind) == Append(ss, [kind |-> kind, scraped |-> 0])

\* the objects as constructed, before any call
Constructed ==
    /\ index_page = NoIndexPage
    /\ unmerged = {}
    /\ sessions = <<>>
    /\ earlier = <<>>
    /\ call = NoCall
    /\ state = NewState
    /\ all_urls = {}
    /\ attempts = 0
    /\ previous_count = 0
    /\ listed_urls = <<>>
    /\ urls = <<>>
    /\ valid_urls = <<>>
    /\ results = <<>>
    /\ open_browsers = {}
    /\ outcome = NoOutcome
    /\ thrown = NoThrow
    /\ progress_calls = <<>>
    /\ faults = <<>>
    /\ discovery = <<>>
    /\ cycles = 0
    /\ reveals = 0
    /\ allMore = TRUE
    /\ stagnated = FALSE
    /\ overrun = FALSE

Init ==
    /\ pc = "idle"
    /\ Constructed
    /\ args = NoArgs
    /\ NoMain
    /\ NoEval

\* p.firefox.launch(...) raises: no browser exists and the operation ends
LaunchFails(e) ==
    /\ pc' = "done"
    /\ outcome' = Raised(e)
    /\ thrown' = [exc |-> e, at |-> "launch"]
    /\ UNCHANGED open_browsers

\* Propagate without the finally clause: the browser is left open
PropagateNoFinally(e, at) ==
    /\ pc' = "done"
    /\ outcome' = Raised(e)
    /\ thrown' = [exc |-> e, at |-> at]
    /\ UNCHANGED open_browsers

\* an exception leaves the try of the running operation: finally: browser.close()
Propagate(e, at) ==
    /\ pc' = "done"
    /\ open_browsers' = {}
    /\ outcome' = Raised(e)
    /\ thrown' = [exc |-> e, at |-> at]

\* get_article_urls (lines 40-78): the browser is launched
GetArticleUrls ==
    /\ pc = "idle"
    /\ \E slug \in Slugs : call' = [NoCall EXCEPT !.op = "get_article_urls", !.place_slug = slug]
    /\ \/ /\ pc' = "crawl_listing"
          /\ open_browsers' = open_browsers \cup {"discovery"}
          /\ sessions' = Opened(<<>>, "discovery")
          /\ UNCHANGED <<outcome, thrown>>
       \/ /\ \E e \in Failures : LaunchFails(e)
          /\ sessions' = <<>>
    /\ UNCHANGED <<state, listed_urls, discovery, loaderVars, batchVars>>
    /\ UNCHANGED <<mainVars, evalVars, index_page, unmerged, earlier>>

\* CrawlListing with the failure of page.goto caught: discovery goes on
CrawlListingSwallows ==
    /\ pc = "crawl_listing"
    /\ state' = [state EXCEPT !.listing_url = ListingUrl]
    /\ pc' = "extract"
    /\ \/ UNCHANGED thrown
       \/ thrown' = [exc |-> "Error", at |-> "goto listing"]
    /\ ResetLocals
    /\ UNCHANGED <<call, listed_urls, discovery, open_browsers, outcome, batchVars>>
    /\ UNCHANGED <<mainVars, evalVars, index_page, unmerged, sessions, earlier>>

\* crawl_listing, up to the call of _load_all_articles
CrawlListing ==
    /\ pc = "crawl_listing"
    /\ state' = [state EXCEPT !.listing_url = ListingUrl]
    /\ \/ /\ pc' = "extract"
          /\ UNCHANGED <<open_browsers, outcome, thrown>>
       \/ \E e \in Failures : Propagate(e, "goto listing")
    /\ ResetLocals
    /\ UNCHANGED <<call, listed_urls, discovery, batchVars>>
    /\ UNCHANGED <<mainVars, evalVars, index_page, unmerged, sessions, earlier>>

\* LoopEnds with the test written attempts <= max_attempts
LoopEndsOffByOne(n) == IF n <= max_attempts THEN "extract" ELSE "loaded"

\* while attempts < max_attempts: where the loop goes with attempts = n
LoopEnds(n) == IF n < max_attempts THEN "extract" ELSE "loaded"

\* _click_see_more: selectors
selectors ==
    << "button:has-text('See more')", "button:has-text('see more')",
       "button[class*='see-more']", "[class*='see-more']",
       "button:has-text('Load more')", "button:has-text('Show more')",
       "a:has-text('See more')" >>

\* what one locator strategy meets on a page: no such element, an element that is not
\* visible, an exception from count(), from is_visible() or from click(), or a click made
StrategyOutcomes ==
    {"absent", "hidden", "count raises", "is_visible raises", "click raises", "clicks"}

\* what page.evaluate of the scripted fallback gives: true, false or an exception
FallbackOutcomes == {"true", "false", "raises"}

\* the strategies of a page that meet something else than an absent element
Present(strategies) == { i \in 1..Len(selectors) : strategies[i] # "absent" }

\* the most strategies of one page that meet something else than an absent element
MaxPresent == 2

\* the pages a reveal click is attempted on
RevealPages ==
    [strategies : { f \in [1..Len(selectors) -> StrategyOutcomes] :
                        Cardinality(Present(f)) <= MaxPresent }
                  \cup { [i \in 1..Len(selectors) |-> "hidden"],
                         [i \in 1..Len(selectors) |-> "click raises"] },
     fallback : FallbackOutcomes]

\* the fallback of _click_see_more, with an exception of page.evaluate passed on
FallbackUnguarded(page, tried) ==
    [clicked |-> page.fallback = "true",
     tried |-> Append(tried, Len(selectors) + 1),
     raised |-> page.fallback = "raises"]

\* _click_see_more after the for loop: the scripted fallback, inside the outer try
\* whose "except Exception" returns False
Fallback(page, tried) ==
    [clicked |-> page.fallback = "true",
     tried |-> Append(tried, Len(selectors) + 1),
     raised |-> FALSE]

\* _click_see_more from selectors[i] on: the click returns True, a strategy that finds
\* nothing to click or raises (except Exception: continue) leads to the next one
RECURSIVE ClickFrom(_, _, _)
ClickFrom(page, i, tried) ==
    IF i > Len(selectors) THEN Fallback(page, tried)
    ELSE IF page.strategies[i] = "clicks"
         THEN [clicked |-> TRUE, tried |-> Append(tried, i), raised |-> FALSE]
         ELSE ClickFrom(page, i + 1, Append(tried, i))

\* ListingCrawler._click_see_more: what it returns, the strategies it tried (the
\* fallback is strategy Len(selectors) + 1), whether an exception left it
_click_see_more(page) == ClickFrom(page, 1, <<>>)

\* the values _click_see_more returns over the pages
ClickReports == { _click_see_more(page).clicked : page \in RevealPages }

\* _load_all_articles: "if not clicked: break"
AfterClick(clicked) == IF clicked THEN "reveal" ELSE "loaded"

\* _load_all_articles, one cycle up to the reveal click
LoadExtract ==
    /\ pc = "extract"
    /\ \/ \E current_urls \in Extractions[call.place_slug], clicked \in ClickReports :
                /\ previous_count' = Cardinality(all_urls)
                /\ all_urls' = all_urls \cup Range(current_urls)
                /\ unmerged' = unmerged \ all_urls'
                /\ discovery' = AppendNew(discovery, current_urls)
                /\ cycles' = cycles + 1
                /\ overrun' = (overrun \/ stagnated)
                /\ pc' = AfterClick(clicked)
                /\ IF clicked
                   THEN /\ reveals' = reveals + 1
                        /\ UNCHANGED allMore
                   ELSE /\ allMore' = FALSE
                        /\ UNCHANGED reveals
                /\ UNCHANGED <<attempts, stagnated, open_browsers, outcome, thrown>>
       \/ /\ \E e \in Failures : Propagate(e, "evaluate")
          /\ ResetLocals
          /\ unmerged' = {}
          /\ UNCHANGED discovery
    /\ UNCHANGED <<call, state, listed_urls, batchVars>>
    /\ UNCHANGED <<mainVars, evalVars, index_page, sessions, earlier>>

\* _load_all_articles, the rest of the cycle after a click that succeeded
LoadReveal ==
    /\ pc = "reveal"
    /\ \/ \E new_urls \in Extractions[call.place_slug] :
            LET adds == Range(new_urls) \ all_urls # {}
                more == Len(new_urls) > Cardinality(all_urls)
            IN  /\ IF Len(new_urls) <= previous_count
                   THEN /\ pc' = "loaded"
                        /\ UNCHANGED attempts
                   ELSE /\ attempts' = attempts + 1
                        /\ pc' = LoopEnds(attempts + 1)
                /\ allMore' = (allMore /\ more)
                /\ stagnated' = (stagnated \/ ~adds)
                /\ unmerged' = Range(new_urls) \ all_urls
                /\ UNCHANGED <<all_urls, previous_count, cycles, reveals, overrun,
                               open_browsers, outcome, thrown>>
       \/ /\ \E e \in Failures : Propagate(e, "evaluate")
          /\ ResetLocals
          /\ unmerged' = {}
    /\ UNCHANGED <<call, state, listed_urls, discovery, batchVars>>
    /\ UNCHANGED <<mainVars, evalVars, index_page, sessions, earlier>>

\* _load_all_articles: return list(all_urls)
LoadReturn ==
    /\ pc = "loaded"
    /\ \E listed \in Orderings(all_urls) : listed_urls' = listed
    /\ pc' = "categorize"
    /\ ResetLocals
    /\ UNCHANGED <<call, state, discovery, open_browsers, outcome, thrown, batchVars>>
    /\ UNCHANGED <<mainVars, evalVars, index_page, unmerged, sessions, earlier>>

RECURSIVE MarkPending(_, _)
MarkPending(processed, us) ==
    IF us = <<>> THEN processed
    ELSE MarkPending((Head(us) :> "pending") @@ processed, Tail(us))

\* Categorized with the else branch taken by every URL
CategorizedSkipsAll(st, all, place_slug) ==
    LET valid == FilterValid(all, place_slug, TRUE)
    IN  [st EXCEPT !.total_found = Len(all),
                   !.valid_urls = valid,
                   !.skipped_urls = all,
                   !.remaining = valid,
                   !.processed = MarkPending(st.processed, valid)]

\* crawl_listing (lines 109-136): the state after categorizing all_urls
Categorized(st, all, place_slug) ==
    LET valid == FilterValid(all, place_slug, TRUE)
        skipped == FilterValid(all, place_slug, FALSE)
    IN  [st EXCEPT !.total_found = Len(all),
                   !.valid_urls = valid,
                   !.skipped_urls = skipped,
                   !.remaining = valid,
                   !.processed = MarkPending(st.processed, valid)]

\* crawl_listing after _load_all_articles, and the return of get_article_urls
Categorize ==
    /\ pc = "categorize"
    /\ state' = Categorized(state, listed_urls, call.place_slug)
    /\ open_browsers' = {}
    /\ listed_urls' = <<>>
    /\ IF call.op = "scrape_batch"
       THEN /\ pc' = "batch"
            /\ urls' = state'.valid_urls
            /\ UNCHANGED outcome
       ELSE /\ pc' = "done"
            /\ outcome' = Returned(state'.valid_urls)
            /\ UNCHANGED urls
    /\ unmerged' = {}
    /\ UNCHANGED <<call, discovery, thrown, loaderVars, valid_urls, results,
                   progress_calls, faults>>
    /\ UNCHANGED <<mainVars, evalVars, index_page, sessions, earlier>>

\* calls of get_article_urls made on one crawler
MaxCalls == 2

\* len(new_urls), the one thing the loop reads of the extraction after a click, over
\* every result the extraction can give
NewCounts == [place_slug \in Slugs |-> { Len(new_urls) : new_urls \in Extractions[place_slug] }]

\* one cycle of the while loop of _load_all_articles, begun with attempts = k and
\* the links of all_urls accumulated in the order d: every way it can end. The first
\* extraction raises; or its links are accumulated and then the click fails (break),
\* or the extraction after the click raises, or that extraction has no more than
\* previous_count links (break), or attempts reaches max_attempts, or the loop goes on
CycleEnds(d, k, place_slug) ==
    { [kind |-> "raised", discovery |-> d] }
      \cup UNION { UNION {
            IF ~clicked
            THEN { [kind |-> "returned", discovery |-> AppendNew(d, current_urls)] }
            ELSE { [kind |-> "raised", discovery |-> AppendNew(d, current_urls)] }
                   \cup { [kind |-> IF len_new_urls <= Len(d) THEN "returned"
                                    ELSE IF LoopEnds(k + 1) = "loaded" THEN "returned"
                                    ELSE "continues",
                           discovery |-> AppendNew(d, current_urls)] :
                          len_new_urls \in NewCounts[place_slug] }
            : clicked \in ClickReports } : current_urls \in Extractions[place_slug] }

\* the cycles begun with attempts = k, from each accumulation of tops
Cycles(tops, k, place_slug) == UNION { CycleEnds(d, k, place_slug) : d \in tops }

\* the accumulations the loop goes on with
Continuing(ends) == { e.discovery : e \in { x \in ends : x.kind = "continues" } }

\* the ends of the cycles that leave _load_all_articles
Leaving(ends) == { x \in ends : x.kind # "continues" }

\* every way _load_all_articles can end when its loop is at attempts = k with one of
\* the accumulations of tops: by an exception of an extraction, or by its return
RECURSIVE LoopFrom(_, _, _)
RECURSIVE LoopOn(_, _, _, _)
LoopFrom(tops, k, place_slug) ==
    IF tops = {} \/ LoopEnds(k) = "loaded" THEN {}
    ELSE LoopOn(Cycles(tops, k, place_slug), tops, k, place_slug)

\* the cycles that leave, and the loop at attempts = k + 1 for those that go on. A
\* cycle reads attempts only in the test attempts < max_attempts: so when the cycles
\* go on with the accumulations they began with, the cycles up to attempts =
\* max_attempts - 2 end as these did, and the loop is taken up at max_attempts - 1
LoopOn(ends, tops, k, place_slug) ==
    Leaving(ends)
      \cup LoopFrom(Continuing(ends),
                    IF Continuing(ends) = tops /\ k + 1 < max_attempts - 1
                    THEN max_attempts - 1 ELSE k + 1,
                    place_slug)

\* _load_all_articles, per place_slug, over the pages of the model: how it ends and
\* the links accumulated, in their order, when it does
LoaderEnds == [place_slug \in Slugs |-> LoopFrom({<<>>}, 0, place_slug)]

\* one call of get_article_urls on a crawler that may have been used before, from the
\* launch of the browser to the return or the exception: the launch, crawl_listing
\* (listing_url set, the navigation, _load_all_articles, the categorizing), the browser
\* closed; the crawler keeps self.state from call to call
CrawlOnce ==
    /\ pc \in {"idle", "done"}
    /\ pc = "done" => call.op = "get_article_urls"
    /\ Len(earlier) + (IF pc = "done" THEN 1 ELSE 0) < MaxCalls
    /\ earlier' = IF pc = "done"
                  THEN Append(earlier, [outcome |-> outcome.kind, state |-> state])
                  ELSE earlier
    /\ pc' = "done"
    /\ \E place_slug \in Slugs :
        /\ call' = [NoCall EXCEPT !.op = "get_article_urls", !.place_slug = place_slug]
        /\ \/ /\ \E e \in Failures :
                    /\ outcome' = Raised(e)
                    /\ thrown' = [exc |-> e, at |-> "launch"]
              /\ sessions' = <<>>
              /\ discovery' = <<>>
              /\ UNCHANGED state
           \/ /\ sessions' = Opened(<<>>, "discovery")
              /\ \/ /\ \E e \in Failures :
                            /\ outcome' = Raised(e)
                            /\ thrown' = [exc |-> e, at |-> "goto listing"]
                    /\ discovery' = <<>>
                    /\ state' = [state EXCEPT !.listing_url = ListingFor(earlier')]
                 \/ \E end \in LoaderEnds[place_slug] :
                        /\ discovery' = end.discovery
                        /\ IF end.kind = "raised"
                           THEN /\ \E e \in Failures :
                                    /\ outcome' = Raised(e)
                                    /\ thrown' = [exc |-> e, at |-> "evaluate"]
                                /\ state' = [state EXCEPT
                                                !.listing_url = ListingFor(earlier')]
                           ELSE /\ \E listed \in Orderings(Range(end.discovery)) :
                                    state' = Categorized(
                                        [state EXCEPT !.listing_url = ListingFor(earlier')],
                                        listed, place_slug)
                                /\ outcome' = Returned(state'.valid_urls)
                                /\ thrown' = NoThrow
    /\ UNCHANGED <<listed_urls, open_browsers, loaderVars, batchVars>>
    /\ UNCHANGED <<mainVars, evalVars, index_page, unmerged>>

\* _extract_place_urls: href.includes('/places-to-go/') && href.includes('/index.html')
RECURSIVE PlaceAnchors(_)
PlaceAnchors(anchors) ==
    IF anchors = <<>> THEN <<>>
    ELSE IF /\ Contains(Head(anchors).path, <<"/", "places-to-go", "/">>)
            /\ Contains(Head(anchors).path, <<"/", "index", ".html">>)
         THEN <<Head(anchors)>> \o PlaceAnchors(Tail(anchors))
         ELSE PlaceAnchors(Tail(anchors))

\* _extract_place_urls without the test on seen
ExtractPlaceUrlsKeepsDuplicates(anchors) ==
    [i \in 1..Len(PlaceAnchors(anchors)) |-> Normalize(PlaceAnchors(anchors)[i])]

\* ListingCrawler._extract_place_urls on an index page holding `anchors`
_extract_place_urls(anchors) == NormalizeDedup(PlaceAnchors(anchors), {})

\* get_place_urls (lines 265-303): the browser is launched
GetPlaceUrls ==
    /\ pc = "idle"
    /\ call' = [NoCall EXCEPT !.op = "get_place_urls"]
    /\ \/ /\ pc' = "extract_places"
          /\ open_browsers' = open_browsers \cup {"index"}
          /\ sessions' = Opened(<<>>, "index")
          /\ UNCHANGED <<outcome, thrown>>
       \/ /\ \E e \in Failures : LaunchFails(e)
          /\ sessions' = <<>>
    /\ UNCHANGED <<state, listed_urls, discovery, loaderVars, batchVars>>
    /\ UNCHANGED <<mainVars, evalVars, index_page, unmerged, earlier>>

\* _extract_place_urls, and the return of get_place_urls
ExtractPlaceUrls ==
    /\ pc = "extract_places"
    /\ \/ \E anchors \in IndexLists :
            /\ outcome' = Returned(_extract_place_urls(anchors))
            /\ index_page' = [navigations |-> index_page.navigations + 1,
                              anchors |-> anchors]
            /\ pc' = "done"
            /\ open_browsers' = {}
            /\ UNCHANGED thrown
       \/ \E e \in Failures, at \in {"goto index", "evaluate"} :
            /\ Propagate(e, at)
            /\ index_page' = [index_page EXCEPT !.navigations = @ + 1]
    /\ UNCHANGED <<call, state, listed_urls, discovery, loaderVars, batchVars>>
    /\ UNCHANGED <<mainVars, evalVars, unmerged, sessions, earlier>>

(***************************************************************************)
(* HemispheresScraper                                                      *)
(***************************************************************************)
\* Python: s.split('/')
RECURSIVE Split(_)
Split(s) ==
    IF \A i \in 1..Len(s) : s[i] # "/" THEN <<s>>
    ELSE LET i == CHOOSE k \in 1..Len(s) : s[k] = "/" /\ \A j \in 1..(k - 1) : s[j] # "/"
         IN  <<SubSeq(s, 1, i - 1)>> \o Split(SubSeq(s, i + 1, Len(s)))

\* [p for p in parsed.path.split('/') if p]
RECURSIVE NonEmpty(_)
NonEmpty(parts) ==
    IF parts = <<>> THEN <<>>
    ELSE IF Head(parts) # <<>> THEN <<Head(parts)>> \o NonEmpty(Tail(parts))
         ELSE NonEmpty(Tail(parts))

\* HemispheresScraper._generate_unique_filename
_generate_unique_filename(url) ==
    LET parts == Split(url.path)
        filename == parts[Len(parts)]
        stem == IF EndsWith(filename, <<".html">>)
                THEN SubSeq(filename, 1, Len(filename) - 1)
                ELSE filename
    IN  IF stem = <<>> THEN <<"article">> ELSE stem

\* HemispheresScraper._save_article_batch: the subdirectory (<<>>: output_dir itself)
Region(url) ==
    LET path_parts == NonEmpty(Split(url.path))
    IN  IF Len(path_parts) >= 2 /\ path_parts[1] = <<"places-to-go">>
        THEN path_parts[2]
        ELSE <<>>

\* HemispheresScraper._save_article_batch: the paths it returns
_save_article_batch(url, base_name) ==
    [json |-> <<Region(url), base_name, ".json">>,
     md   |-> <<Region(url), base_name, ".md">>,
     html |-> <<Region(url), base_name, ".html">>]

\* HemispheresScraper._is_valid_article_url
scraper_is_valid_article_url(url) ==
    LET path == Lower(url.path)
    IN  /\ url.scheme \in {"http", "https"}
        /\ ~(path = <<>> \/ path = <<"/">>)
        /\ ~(EndsWith(path, <<"/", "index", ".html">>) \/ EndsWith(path, <<"/", "index">>))
        /\ EndsWith(path, <<".html">>)

RECURSIVE Revalidate(_)
Revalidate(us) ==
    IF us = <<>> THEN <<>>
    ELSE IF scraper_is_valid_article_url(Head(us))
         THEN <<Head(us)>> \o Revalidate(Tail(us))
         ELSE Revalidate(Tail(us))

\* values of max_articles a caller passes
MaxArticlesValues == {None} \cup { <<n>> : n \in 0..MaxArticles }

Min(a, b) == IF a < b THEN a ELSE b

\* if max_articles: urls = urls[:max_articles]
Truncate(us, max_articles) ==
    IF max_articles # None /\ max_articles[1] # 0
    THEN SubSeq(us, 1, Min(max_articles[1], Len(us)))
    ELSE us

\* the steps of one item's scrape that can raise an Exception
ItemFaults == {"none", "goto", "scrape_page", "save"}

\* _scrape_single_article_in_batch with success set before the article is saved
ScrapeSingleSuccessEarly(url, fault) ==
    IF fault \in {"none", "save"}
    THEN [url |-> url, success |-> TRUE, files |-> <<"json", "html", "markdown">>,
          error |-> IF fault = "none" THEN "None" ELSE fault,
          file_paths |-> IF fault = "none"
                         THEN [json |-> <<>>, md |-> <<>>, html |-> <<>>]
                         ELSE <<>>]
    ELSE [url |-> url, success |-> FALSE, files |-> <<>>,
          error |-> fault,
          file_paths |-> <<>>]

\* HemispheresScraper._scrape_single_article_in_batch, with the step that raises
_scrape_single_article_in_batch(url, fault) ==
    IF fault = "none"
    THEN [url |-> url, success |-> TRUE, files |-> <<"json", "html", "markdown">>,
          error |-> "None",
          file_paths |-> _save_article_batch(url, _generate_unique_filename(url))]
    ELSE [url |-> url, success |-> FALSE, files |-> <<>>,
          error |-> fault,
          file_paths |-> <<>>]

\* scrape_batch (lines 539-540): the crawler is made and its browser launched
ScrapeBatch ==
    /\ pc = "idle"
    /\ call' = [NoCall EXCEPT !.op = "scrape_batch"]
    /\ state' = NewState
    /\ \/ /\ pc' = "crawl_listing"
          /\ open_browsers' = open_browsers \cup {"discovery"}
          /\ sessions' = Opened(<<>>, "discovery")
          /\ UNCHANGED <<outcome, thrown>>
       \/ /\ \E e \in Failures : LaunchFails(e)
          /\ sessions' = <<>>
    /\ UNCHANGED <<listed_urls, discovery, loaderVars, batchVars>>
    /\ UNCHANGED <<mainVars, evalVars, index_page, unmerged, earlier>>

\* scrape_batch (lines 542-592), max_articles and progress_callback read here
BatchSetup ==
    /\ pc = "batch"
    /\ \E max_articles \in MaxArticlesValues, progress_callback \in BOOLEAN :
        /\ call' = [call EXCEPT !.max_articles = max_articles,
                                !.progress_callback = progress_callback]
        /\ urls' = Truncate(urls, max_articles)
    /\ valid_urls' = Revalidate(urls')
    /\ results' = <<>>
    /\ \/ /\ pc' = "progress"
          /\ open_browsers' = open_browsers \cup {"batch"}
          /\ sessions' = Opened(sessions, "batch")
          /\ UNCHANGED <<outcome, thrown>>
       \/ /\ \E e \in Failures : LaunchFails(e)
          /\ UNCHANGED sessions
    /\ UNCHANGED <<state, listed_urls, discovery, loaderVars, progress_calls, faults>>
    /\ UNCHANGED <<mainVars, evalVars, index_page, unmerged, earlier>>

\* BatchProgress with enumerate(valid_urls) counting from 0
BatchProgressZeroBased ==
    /\ pc = "progress"
    /\ Len(results) < Len(valid_urls)
    /\ IF call.progress_callback
       THEN /\ progress_calls' = Append(progress_calls,
                    [current |-> Len(results), total |-> Len(valid_urls),
                     url |-> valid_urls[Len(results) + 1],
                     appended |-> Len(results), scraped |-> Len(faults)])
            /\ \/ /\ pc' = "scrape"
                  /\ UNCHANGED <<open_browsers, outcome, thrown>>
               \/ \E e \in Failures : Propagate(e, "progress_callback")
       ELSE /\ pc' = "scrape"
            /\ UNCHANGED <<progress_calls, open_browsers, outcome, thrown>>
    /\ UNCHANGED <<call, state, listed_urls, discovery, loaderVars, urls, valid_urls,
                   results, faults>>
    /\ UNCHANGED <<mainVars, evalVars, index_page, unmerged, sessions, earlier>>

\* BatchProgress with the call of progress_callback in a try: its exception is
\* noted and the item scraped all the same
BatchProgressSwallows ==
    /\ pc = "progress"
    /\ Len(results) < Len(valid_urls)
    /\ LET index == Len(results) + 1
       IN  IF call.progress_callback
           THEN /\ progress_calls' = Append(progress_calls,
                        [current |-> index, total |-> Len(valid_urls),
                         url |-> valid_urls[index],
                         appended |-> Len(results), scraped |-> Len(faults)])
                /\ pc' = "scrape"
                /\ \/ UNCHANGED thrown
                   \/ \E e \in Failures : thrown' = [exc |-> e, at |-> "progress_callback"]
                /\ UNCHANGED <<open_browsers, outcome>>
           ELSE /\ pc' = "scrape"
                /\ UNCHANGED <<progress_calls, open_browsers, outcome, thrown>>
    /\ UNCHANGED <<call, state, listed_urls, discovery, loaderVars, urls, valid_urls,
                   results, faults>>
    /\ UNCHANGED <<mainVars, evalVars, index_page, unmerged, sessions, earlier>>

\* scrape_batch (lines 595-599): the next URL is taken and progress_callback called
BatchProgress ==
    /\ pc = "progress"
    /\ Len(results) < Len(valid_urls)
    /\ LET index == Len(results) + 1
       IN  IF call.progress_callback
           THEN /\ progress_calls' = Append(progress_calls,
                        [current |-> index, total |-> Len(valid_urls),
                         url |-> valid_urls[index],
                         appended |-> Len(results), scraped |-> Len(faults)])
                /\ \/ /\ pc' = "scrape"
                      /\ UNCHANGED <<open_browsers, outcome, thrown>>
                   \/ \E e \in Failures : Propagate(e, "progress_callback")
           ELSE /\ pc' = "scrape"
                /\ UNCHANGED <<progress_calls, open_browsers, outcome, thrown>>
    /\ UNCHANGED <<call, state, listed_urls, discovery, loaderVars, urls, valid_urls,
                   results, faults>>
    /\ UNCHANGED <<mainVars, evalVars, index_page, unmerged, sessions, earlier>>

\* scrape_batch with a browser launched for each item
ScrapedThroughNewSession(ss) == Append(ss, [kind |-> "batch", scraped |-> 1])

\* scrape_batch (lines 592, 601): the item is scraped through page, the page made
\* once before the loop in the browser launched last
ScrapedThroughPage(ss) == [ss EXCEPT ![Len(ss)].scraped = @ + 1]

\* BatchScrape leaving the loop at the first item that fails
BatchScrapeBreaks ==
    /\ pc = "scrape"
    /\ LET url == valid_urls[Len(results) + 1]
       IN  \/ \E fault \in ItemFaults :
                /\ results' = Append(results, _scrape_single_article_in_batch(url, fault))
                /\ faults' = Append(faults, fault)
                /\ IF fault = "none"
                   THEN /\ pc' = "progress"
                        /\ UNCHANGED <<open_browsers, outcome, thrown>>
                   ELSE /\ pc' = "done"
                        /\ open_browsers' = {}
                        /\ outcome' = Returned(results')
                        /\ UNCHANGED thrown
           \/ /\ Propagate("KeyboardInterrupt", "scrape")
              /\ faults' = Append(faults, "KeyboardInterrupt")
              /\ UNCHANGED results
    /\ sessions' = ScrapedThroughPage(sessions)
    /\ UNCHANGED <<call, state, listed_urls, discovery, loaderVars, urls, valid_urls,
                   progress_calls>>
    /\ UNCHANGED <<mainVars, evalVars, index_page, unmerged, earlier>>

\* BatchScrape with "except BaseException": the interrupt is recorded as the item's error
BatchScrapeCatchesInterrupt ==
    /\ pc = "scrape"
    /\ LET url == valid_urls[Len(results) + 1]
       IN  \E fault \in ItemFaults \cup {"KeyboardInterrupt"} :
                /\ results' = Append(results, _scrape_single_article_in_batch(url, fault))
                /\ faults' = Append(faults, fault)
                /\ pc' = "progress"
                /\ UNCHANGED <<open_browsers, outcome, thrown>>
    /\ sessions' = ScrapedThroughPage(sessions)
    /\ UNCHANGED <<call, state, listed_urls, discovery, loaderVars, urls, valid_urls,
                   progress_calls>>
    /\ UNCHANGED <<mainVars, evalVars, index_page, unmerged, earlier>>

\* scrape_batch (lines 601-602): one item scraped and its result appended
BatchScrape ==
    /\ pc = "scrape"
    /\ LET url == valid_urls[Len(results) + 1]
       IN  \/ \E fault \in ItemFaults :
                /\ results' = Append(results, _scrape_single_article_in_batch(url, fault))
                /\ faults' = Append(faults, fault)
                /\ pc' = "progress"
                /\ UNCHANGED <<open_browsers, outcome, thrown>>
           \/ /\ Propagate("KeyboardInterrupt", "scrape")
              /\ faults' = Append(faults, "KeyboardInterrupt")
              /\ UNCHANGED results
    /\ sessions' = ScrapedThroughPage(sessions)
    /\ UNCHANGED <<call, state, listed_urls, discovery, loaderVars, urls, valid_urls,
                   progress_calls>>
    /\ UNCHANGED <<mainVars, evalVars, index_page, unmerged, earlier>>

\* scrape_batch (lines 605-609): the loop is over
BatchFinish ==
    /\ pc = "progress"
    /\ Len(results) = Len(valid_urls)
    /\ pc' = "done"
    /\ open_browsers' = {}
    /\ outcome' = Returned(results)
    /\ UNCHANGED <<call, state, listed_urls, discovery, thrown, loaderVars, batchVars>>
    /\ UNCHANGED <<mainVars, evalVars, index_page, unmerged, sessions, earlier>>

(***************************************************************************)
(* main                                                                    *)
(***************************************************************************)
crawlerVars == <<call, state, listed_urls, discovery, open_browsers, outcome, thrown,
                 loaderVars, batchVars>>

\* values of --places: the names as typed, each a text of its own
PlacesValues == { << <<"Africa">> >>, << <<"europe">> >> }

\* the command lines: every combination of the flags that select a mode
AllArgs ==
    [url : BOOLEAN, listing_url : BOOLEAN, batch : BOOLEAN, all_places : BOOLEAN,
     places : {None} \cup { <<names>> : names \in PlacesValues }]

\* the command lines with at most one of these flags
MainArgs ==
    { a \in AllArgs :
        Cardinality({ f \in {"url", "listing_url", "batch", "all_places"} : a[f] })
            + (IF a.places # None THEN 1 ELSE 0) <= 1 }

PlaceModes == {"all_places", "specific_places"}

\* Mode with the all-places branch tested before the batch branch
ModeAllPlacesFirst(a) ==
    IF a.url THEN "single"
    ELSE IF a.all_places THEN "all_places"
    ELSE IF a.batch \/ a.listing_url THEN "batch"
    ELSE IF a.places # None THEN "specific_places"
    ELSE "all_places"

\* main: "Determine mode" and the if/elif chain that dispatches on it
Mode(a) ==
    LET is_single_article == a.url
        is_batch_listing == a.batch \/ a.listing_url
        is_specific_places == a.places # None
        is_all_places ==
            \/ a.all_places
            \/ ~is_single_article /\ ~is_batch_listing /\ ~a.all_places /\ ~is_specific_places
    IN  IF is_single_article THEN "single"
        ELSE IF is_batch_listing THEN "batch"
        ELSE IF is_all_places THEN "all_places"
        ELSE IF is_specific_places THEN "specific_places"
        ELSE "no_mode"

\* sum(1 for r in results if not r["success"])
FailedCount(rs) == Cardinality({ i \in 1..Len(rs) : ~rs[i].success })

\* ExitCode without the test len(results) > 0
ExitCodeNoLengthTest(rs) ==
    IF FailedCount(rs) = Len(rs) THEN 1
    ELSE IF FailedCount(rs) > 0 THEN 2
    ELSE 0

\* main: "Return appropriate exit code"
ExitCode(rs) ==
    IF FailedCount(rs) = Len(rs) /\ Len(rs) > 0 THEN 1
    ELSE IF FailedCount(rs) > 0 THEN 2
    ELSE 0

\* main: except KeyboardInterrupt: return 130; except Exception: return 1
ExceptionExit(e) == IF e = "KeyboardInterrupt" THEN 130 ELSE 1

\* Python: s.split(sep)[-1]
RECURSIVE LastPart(_, _)
LastPart(s, sep) ==
    IF ~Contains(s, sep) THEN s
    ELSE LET i == CHOOSE k \in 1..(Len(s) - Len(sep) + 1) :
                    /\ SubSeq(s, k, k + Len(sep) - 1) = sep
                    /\ \A j \in 1..(k - 1) : SubSeq(s, j, j + Len(sep) - 1) # sep
         IN  LastPart(SubSeq(s, i + Len(sep), Len(s)), sep)

\* main: place_url.split('/places-to-go/')[-1].split('/')[0]
PlaceName(place_url) ==
    IF Contains(place_url.path, <<"/", "places-to-go", "/">>)
    THEN Split(LastPart(place_url.path, <<"/", "places-to-go", "/">>))[1]
    ELSE <<place_url.scheme, ":">>

\* main, all-places mode: the places the loop goes through
AllPlaces(place_urls) ==
    [i \in 1..Len(place_urls) |-> <<PlaceName(place_urls[i]), place_urls[i]>>]

\* main, specific-places mode: filtered_place_urls
RECURSIVE FilteredPlaces(_, _)
FilteredPlaces(place_urls, place_names) ==
    IF place_urls = <<>> THEN <<>>
    ELSE LET place_name == Lower(PlaceName(Head(place_urls)))
         IN  IF place_name \in Range(place_names)
             THEN <<<<place_name, Head(place_urls)>>>>
                      \o FilteredPlaces(Tail(place_urls), place_names)
             ELSE FilteredPlaces(Tail(place_urls), place_names)

\* [p.strip().lower() for p in args.places.split(',')]
PlaceNames(places) == [i \in 1..Len(places) |-> Lower(places[i])]

\* all_results[place_name] = results, on a dict kept as its items in insertion order
PutResults(items, place_name, rs) ==
    IF \E i \in 1..Len(items) : items[i][1] = place_name
    THEN [i \in 1..Len(items) |->
            IF items[i][1] = place_name THEN <<place_name, rs>> ELSE items[i]]
    ELSE Append(items, <<place_name, rs>>)

\* the results of every place, one after the other
RECURSIVE AllItems(_)
AllItems(items) ==
    IF items = <<>> THEN <<>> ELSE Head(items)[2] \o AllItems(Tail(items))

\* def scrape_batch(self, listing_url, max_articles=None, progress_callback=None)
ScrapeBatchParameters == {"listing_url", "max_articles", "progress_callback"}

\* scrape_single_place: the arguments it passes to scraper.scrape_batch by keyword
ScrapeSinglePlaceKeywords == {"max_articles", "progress_callback", "place_slug"}

\* Python binds a call whose keywords all name parameters; another raises TypeError
Binds(keywords, parameters) == keywords \subseteq parameters

\* main, from parse_args to the dispatch on the mode
Main ==
    /\ pc = "main"
    /\ mode' = Mode(args)
    /\ pc' = "idle"
    /\ UNCHANGED <<crawlerVars, args, exit_code, place_queue, all_results, evalVars, index_page, unmerged, sessions, earlier>>

\* main, single article mode: scrape_and_save returns or raises
MainSingle ==
    /\ pc = "idle"
    /\ mode = "single"
    /\ \/ /\ exit_code' = <<0>>
          /\ UNCHANGED thrown
       \/ \E e \in Failures :
            /\ exit_code' = <<ExceptionExit(e)>>
            /\ thrown' = [exc |-> e, at |-> "scrape_and_save"]
    /\ pc' = "exited"
    /\ UNCHANGED <<call, state, listed_urls, discovery, open_browsers, outcome,
                   loaderVars, batchVars, args, mode, place_queue, all_results, evalVars,
                   index_page, unmerged, sessions, earlier>>

\* main, batch mode: scraper.scrape_batch(listing_url, max_articles=..., progress_callback=...)
MainBatch ==
    /\ mode = "batch"
    /\ call = NoCall
    /\ ScrapeBatch

\* main, all-places and specific-places mode: crawler.get_place_urls(DEFAULT_INDEX_URL)
MainPlaces ==
    /\ mode \in PlaceModes
    /\ call = NoCall
    /\ GetPlaceUrls

\* main, after get_place_urls has returned: the places to scrape
MainPlaceUrls ==
    /\ pc = "done"
    /\ mode \in PlaceModes
    /\ call.op = "get_place_urls"
    /\ outcome.kind = "returned"
    /\ LET queue == IF mode = "all_places"
                    THEN AllPlaces(outcome.value)
                    ELSE FilteredPlaces(outcome.value, PlaceNames(args.places[1]))
       IN  IF queue = <<>>
           THEN /\ exit_code' = <<1>>
                /\ pc' = "exited"
                /\ UNCHANGED place_queue
           ELSE /\ place_queue' = queue
                /\ pc' = "idle"
                /\ UNCHANGED exit_code
    /\ UNCHANGED <<crawlerVars, args, mode, all_results, evalVars, index_page, unmerged, sessions, earlier>>

\* scrape_single_place: scraper.scrape_batch(..., place_slug=place_name)
ScrapeSinglePlace ==
    /\ pc = "idle"
    /\ mode \in PlaceModes
    /\ place_queue # <<>>
    /\ IF Binds(ScrapeSinglePlaceKeywords, ScrapeBatchParameters)
       THEN ScrapeBatch
       ELSE /\ call' = [NoCall EXCEPT !.op = "scrape_batch"]
            /\ outcome' = Raised("TypeError")
            /\ thrown' = [exc |-> "TypeError", at |-> "scrape_batch"]
            /\ pc' = "done"
            /\ UNCHANGED <<state, listed_urls, discovery, open_browsers, loaderVars,
                           batchVars, mainVars, evalVars, index_page, unmerged, sessions, earlier>>

\* main, after scrape_batch has returned: the exit code, or the next place
MainBatchReturned ==
    /\ pc = "done"
    /\ mode \in {"batch"} \cup PlaceModes
    /\ call.op = "scrape_batch"
    /\ outcome.kind = "returned"
    /\ IF mode = "batch"
       THEN /\ exit_code' = <<ExitCode(outcome.value)>>
            /\ pc' = "exited"
            /\ UNCHANGED <<place_queue, all_results>>
       ELSE /\ all_results' = PutResults(all_results, Head(place_queue)[1], outcome.value)
            /\ place_queue' = Tail(place_queue)
            /\ IF place_queue' = <<>>
               THEN /\ exit_code' = <<ExitCode(AllItems(all_results'))>>
                    /\ pc' = "exited"
               ELSE /\ pc' = "idle"
                    /\ UNCHANGED exit_code
    /\ UNCHANGED <<crawlerVars, args, mode, evalVars, index_page, unmerged, sessions, earlier>>

\* main: the except clauses around the whole of it
MainRaised ==
    /\ pc = "done"
    /\ mode # "none"
    /\ outcome.kind = "raised"
    /\ exit_code' = <<ExceptionExit(outcome.exc)>>
    /\ pc' = "exited"
    /\ UNCHANGED <<crawlerVars, args, mode, place_queue, all_results, evalVars, index_page, unmerged, sessions, earlier>>

\* main is started with a command line
InitMain ==
    /\ pc = "main"
    /\ Constructed
    /\ args \in MainArgs
    /\ NoMain
    /\ NoEval

NextMain ==
    \/ Main
    \/ MainSingle
    \/ MainBatch
    \/ MainPlaces
    \/ MainPlaceUrls
    \/ ScrapeSinglePlace
    \/ MainBatchReturned
    \/ MainRaised
    \/ CrawlListing
    \/ LoadExtract
    \/ LoadReveal
    \/ LoadReturn
    \/ Categorize
    \/ ExtractPlaceUrls
    \/ BatchSetup
    \/ BatchProgress
    \/ BatchScrape
    \/ BatchFinish

MainSpec == InitMain /\ [][NextMain]_vars

\* main is started with any combination of the mode flags
InitMode ==
    /\ pc = "main"
    /\ Constructed
    /\ args \in AllArgs
    /\ NoMain
    /\ NoEval

\* main up to the first call the mode makes
NextMode ==
    \/ Main
    \/ MainSingle
    \/ MainBatch
    \/ MainPlaces

ModeSpec == InitMode /\ [][NextMode]_vars

Next ==
    \/ GetArticleUrls
    \/ CrawlListing
    \/ LoadExtract
    \/ LoadReveal
    \/ LoadReturn
    \/ Categorize
    \/ GetPlaceUrls
    \/ ExtractPlaceUrls
    \/ ScrapeBatch
    \/ BatchSetup
    \/ BatchProgress
    \/ BatchScrape
    \/ BatchFinish

Spec == Init /\ [][Next]_vars

\* one ListingCrawler used for several discoveries
NextCrawler == CrawlOnce

CrawlerSpec == Init /\ [][NextCrawler]_vars

(***************************************************************************)
(* urllib.parse, on a text as the sequence of its tokens: a scheme, ":",    *)
(* "//", a host, "/", "?", "#", ";", ".", ".." and names                    *)
(***************************************************************************)
\* the tokens urlsplit reads as a scheme when ":" follows
SchemeTokens == {"https", "HTTPS", "http", "ftp"}

\* urllib.parse.uses_relative and uses_netloc, as far as SchemeTokens go
UsesRelative == {"", "https", "http", "ftp"}

\* s.find(c) for the first c of cs, Len(s) + 1 when there is none
Find(s, cs) ==
    LET hits == { i \in 1..Len(s) : s[i] \in cs }
    IN  IF hits = {} THEN Len(s) + 1 ELSE CHOOSE i \in hits : \A j \in hits : i <= j

\* s.rfind(c), 0 when there is none
RFind(s, c) ==
    LET hits == { i \in 1..Len(s) : s[i] = c }
    IN  IF hits = {} THEN 0 ELSE CHOOSE i \in hits : \A j \in hits : j <= i

\* a component of at most one token, as the text it is
Text(ts) == IF ts = <<>> THEN "" ELSE ts[1]

\* urlsplit: the scheme, when the text starts with one followed by ":"
SplitScheme(url) ==
    IF Len(url) >= 2 /\ url[1] \in SchemeTokens /\ url[2] = ":"
    THEN [scheme |-> LowerTok(url[1]), rest |-> SubSeq(url, 3, Len(url))]
    ELSE [scheme |-> "", rest |-> url]

\* urlsplit: the netloc, from "//" up to the first "/", "?" or "#"
SplitNetloc(p) ==
    IF p.rest # <<>> /\ p.rest[1] = "//"
    THEN [scheme |-> p.scheme,
          netloc |-> Text(SubSeq(Tail(p.rest), 1,
                                 Find(Tail(p.rest), {"/", "?", "#"}) - 1)),
          rest |-> SubSeq(Tail(p.rest), Find(Tail(p.rest), {"/", "?", "#"}),
                          Len(Tail(p.rest)))]
    ELSE [scheme |-> p.scheme, netloc |-> "", rest |-> p.rest]

\* urlsplit: the fragment, from the first "#"
SplitFragment(p) ==
    [scheme |-> p.scheme, netloc |-> p.netloc,
     fragment |-> Text(SubSeq(p.rest, Find(p.rest, {"#"}) + 1, Len(p.rest))),
     rest |-> SubSeq(p.rest, 1, Find(p.rest, {"#"}) - 1)]

\* urlsplit: the query, from the first "?"
SplitQuery(p) ==
    [scheme |-> p.scheme, netloc |-> p.netloc, fragment |-> p.fragment,
     query |-> Text(SubSeq(p.rest, Find(p.rest, {"?"}) + 1, Len(p.rest))),
     rest |-> SubSeq(p.rest, 1, Find(p.rest, {"?"}) - 1)]

\* urlparse: the path, up to the first ";" of its last segment
SplitParams(p) ==
    [scheme |-> p.scheme, netloc |-> p.netloc,
     path |-> SubSeq(p.rest, 1,
                     RFind(p.rest, "/")
                       + Find(SubSeq(p.rest, RFind(p.rest, "/") + 1, Len(p.rest)), {";"})
                       - 1),
     query |-> p.query, fragment |-> p.fragment]

\* urllib.parse.urlparse(url): scheme, netloc, then fragment, query and params
urlparse(url) == SplitParams(SplitQuery(SplitFragment(SplitNetloc(SplitScheme(url)))))

\* urlunparse: a path after "//" starts with "/"
Rooted(path) ==
    IF path # <<>> /\ path[1] # "/" THEN <<"/">> \o path ELSE path

\* urllib.parse.urlunparse, of a URL without params (the normalization reads only the
\* scheme, netloc and path of what urljoin returns)
urlunparse(u) ==
    (IF u.scheme # "" THEN <<u.scheme, ":">> ELSE <<>>)
        \o (IF u.netloc # "" \/ u.scheme \in SchemeTokens
            THEN (IF u.netloc # "" THEN <<"//", u.netloc>> ELSE <<"//">>)
                     \o Rooted(u.path)
            ELSE u.path)
        \o (IF u.query # "" THEN <<"?", u.query>> ELSE <<>>)
        \o (IF u.fragment # "" THEN <<"#", u.fragment>> ELSE <<>>)

\* '/'.join(segments)
RECURSIVE JoinSlash(_)
JoinSlash(segments) ==
    IF segments = <<>> THEN <<>>
    ELSE IF Len(segments) = 1 THEN segments[1]
    ELSE segments[1] \o <<"/">> \o JoinSlash(Tail(segments))

\* urljoin: segments[1:-1] = filter(None, segments[1:-1])
FilterMiddle(segments) ==
    IF Len(segments) <= 2 THEN segments
    ELSE <<segments[1]>> \o NonEmpty(SubSeq(segments, 2, Len(segments) - 1))
             \o <<segments[Len(segments)]>>

\* urljoin: the loop that resolves "." and ".."
RECURSIVE ResolveDots(_, _)
ResolveDots(segments, resolved_path) ==
    IF segments = <<>> THEN resolved_path
    ELSE IF Head(segments) = <<"..">>
         THEN ResolveDots(Tail(segments),
                          IF resolved_path = <<>> THEN <<>>
                          ELSE SubSeq(resolved_path, 1, Len(resolved_path) - 1))
    ELSE IF Head(segments) = <<".">>
         THEN ResolveDots(Tail(segments), resolved_path)
    ELSE ResolveDots(Tail(segments), Append(resolved_path, Head(segments)))

\* urljoin: base_parts, the segments of the base path without the file name
BaseParts(bpath) ==
    IF Split(bpath)[Len(Split(bpath))] # <<>>
    THEN SubSeq(Split(bpath), 1, Len(Split(bpath)) - 1)
    ELSE Split(bpath)

\* urljoin: segments, of a path that is not empty
Segments(bpath, path) ==
    IF path[1] = "/" THEN Split(path)
    ELSE FilterMiddle(BaseParts(bpath) \o Split(path))

\* urljoin: resolved_path
ResolvedPath(segments) ==
    IF segments[Len(segments)] \in {<<".">>, <<"..">>}
    THEN Append(ResolveDots(segments, <<>>), <<>>)
    ELSE ResolveDots(segments, <<>>)

\* urljoin: '/'.join(resolved_path) or '/'
OrSlash(joined) == IF joined = <<>> THEN <<"/">> ELSE joined

\* urljoin, once base and url are parsed and url has the scheme of base by default
JoinParsed(b, u, url) ==
    IF u.scheme # b.scheme \/ u.scheme \notin UsesRelative THEN url
    ELSE IF u.netloc # "" THEN urlunparse(u)
    ELSE IF u.path = <<>>
         THEN urlunparse([u EXCEPT !.netloc = b.netloc, !.path = b.path,
                                   !.query = IF u.query = "" THEN b.query
                                             ELSE u.query])
    ELSE urlunparse([u EXCEPT !.netloc = b.netloc,
                              !.path = OrSlash(JoinSlash(ResolvedPath(
                                           Segments(b.path, u.path))))])

\* urlparse(url, bscheme): the scheme of the base when url has none
DefaultScheme(parsed, bscheme) ==
    IF parsed.scheme = "" THEN [parsed EXCEPT !.scheme = bscheme] ELSE parsed

\* urllib.parse.urljoin(base, url)
urljoin(base, url) ==
    IF base = <<>> THEN url
    ELSE IF url = <<>> THEN base
    ELSE JoinParsed(urlparse(base),
                    DefaultScheme(urlparse(url), urlparse(base).scheme), url)

\* a normalization that keeps the query string
FormatKeepsQuery(parsed) ==
    (IF parsed.scheme # "" THEN <<parsed.scheme>> ELSE <<>>)
        \o <<":", "//">>
        \o (IF parsed.netloc # "" THEN <<parsed.netloc>> ELSE <<>>)
        \o parsed.path
        \o (IF parsed.query # "" THEN <<"?", parsed.query>> ELSE <<>>)

\* f"{parsed.scheme}://{parsed.netloc}{parsed.path}"
Format(parsed) ==
    (IF parsed.scheme # "" THEN <<parsed.scheme>> ELSE <<>>)
        \o <<":", "//">>
        \o (IF parsed.netloc # "" THEN <<parsed.netloc>> ELSE <<>>)
        \o parsed.path

\* _extract_article_links and _extract_place_urls: from href to normalized, as texts
NormalizedText(base_url, href) == Format(urlparse(urljoin(base_url, href)))

(***************************************************************************)
(* The pure functions, applied to inputs drawn at the start                 *)
(***************************************************************************)
hostText == <<"https", ":", "//", "www.united.com">>

\* page.url of the page the anchors are on
BaseUrls ==
    { hostText \o <<"/", "places-to-go", "/", "index", ".html">>,
      hostText \o pathIB \o <<"?", "p=1", "#", "list">> }

\* an href up to its query and fragment
HrefStems ==
    { <<>>,
      hostText \o pathA,
      <<"HTTPS", ":", "//", "www.united.com">> \o pathA,
      <<"http", ":", "//", "www.united.com">> \o pathA,
      <<"//", "www.united.com">> \o pathA,
      pathA,
      <<"africa", "/", "a", ".html">>,
      <<".", "/", "africa", "/", "a", ".html">>,
      <<"..", "/", "africa", "/", "a", ".html">>,
      <<"a", ".html">> }

HrefEnds == { <<>>, <<"?", "q=1">>, <<"#", "top">>, <<"?", "q=1", "#", "top">> }

HrefTexts == { stem \o end : stem \in HrefStems, end \in HrefEnds }

NormalizeInputs ==
    [fn : {"normalize"}, base_url : BaseUrls, href : HrefTexts, other : HrefTexts]

\* the normalization of two hrefs of one page, and of the first result again
EvalNormalize ==
    /\ pc = "eval"
    /\ fn_in.fn = "normalize"
    /\ fn_out' = [first |-> NormalizedText(fn_in.base_url, fn_in.href),
                  second |-> NormalizedText(fn_in.base_url, fn_in.other),
                  again |-> NormalizedText(fn_in.base_url,
                                NormalizedText(fn_in.base_url, fn_in.href))]
    /\ pc' = "evaluated"
    /\ UNCHANGED <<fn_in, crawlerVars, loaderVars, batchVars, mainVars, index_page, unmerged, sessions, earlier>>

\* the article predicate with the filter compared as it is written
IsValidArticleUrlCaseSensitive(url, place_slug) ==
    LET path == Lower(urlparse(url).path)
    IN  /\ Contains(path, <<"/", "places-to-go", "/">>)
        /\ ~Contains(path, <<"/", "things-to-do", "/">>)
        /\ (place_slug # <<>> => Contains(path, <<"/">> \o place_slug \o <<"/">>))
        /\ ~(EndsWith(path, <<"/", "index", ".html">>) \/ EndsWith(path, <<"/", "index">>))
        /\ EndsWith(path, <<".html">>)

\* the article predicate with the filter looked up in the path as it is written
IsValidArticleUrlPathAsWritten(url, place_slug) ==
    LET path == Lower(urlparse(url).path)
    IN  /\ Contains(path, <<"/", "places-to-go", "/">>)
        /\ ~Contains(path, <<"/", "things-to-do", "/">>)
        /\ (place_slug # <<>> =>
                Contains(urlparse(url).path, <<"/">> \o Lower(place_slug) \o <<"/">>))
        /\ ~(EndsWith(path, <<"/", "index", ".html">>) \/ EndsWith(path, <<"/", "index">>))
        /\ EndsWith(path, <<".html">>)

\* ListingCrawler._is_valid_article_url on the text of a URL and the text of a
\* place_slug (<<>>: None or the empty text)
IsValidArticleUrl(url, place_slug) ==
    LET path == Lower(urlparse(url).path)
    IN  /\ Contains(path, <<"/", "places-to-go", "/">>)
        /\ ~Contains(path, <<"/", "things-to-do", "/">>)
        /\ (place_slug # <<>> =>
                Contains(path, <<"/">> \o Lower(place_slug) \o <<"/">>))
        /\ ~(EndsWith(path, <<"/", "index", ".html">>) \/ EndsWith(path, <<"/", "index">>))
        /\ EndsWith(path, <<".html">>)

\* the pieces a URL is put together from
UrlPrefixes == { <<>>, <<"/", "en">> }
UrlMarkers == { <<>>, <<"/", "places-to-go">>, <<"/", "Places-To-Go">> }
UrlRegions == { <<>>, <<"/", "africa">>, <<"/", "Africa">>, <<"/", "asia">> }
UrlExtras == { <<>>, <<"/", "things-to-do">>, <<"/", "Things-To-Do">> }
UrlEndings ==
    { <<"/", "a", ".html">>, <<"/", "a", ".HTML">>, <<"/", "index", ".html">>,
      <<"/", "INDEX", ".html">>, <<"/", "index">>, <<"/", "a">>, <<"/">>,
      <<"/", "a", ".html", "/">> }
UrlTails == { <<>>, <<"?", "q=1">>, <<"#", "top">> }

\* place_slug values, as texts
SlugTexts ==
    { <<>>, <<"africa">>, <<"Africa">>, <<"asia">>, <<"europe">>, <<"en">>,
      <<"places-to-go">>, <<"a", ".html">> }

UrlText(parts) ==
    hostText \o parts.prefix \o parts.marker \o parts.region \o parts.extra
        \o parts.ending \o parts.tail

IsValidInputs ==
    [fn : {"is_valid"}, prefix : UrlPrefixes, marker : UrlMarkers, region : UrlRegions,
     extra : UrlExtras, ending : UrlEndings, tail : UrlTails, place_slug : SlugTexts]

\* _is_valid_article_url(url, place_slug)
EvalIsValid ==
    /\ pc = "eval"
    /\ fn_in.fn = "is_valid"
    /\ fn_out' = IsValidArticleUrl(UrlText(fn_in), fn_in.place_slug)
    /\ pc' = "evaluated"
    /\ UNCHANGED <<fn_in, crawlerVars, loaderVars, batchVars, mainVars, index_page, unmerged, sessions, earlier>>

\* the filters one URL is tried under
NarrowingSlugs == SlugTexts \cup { <<"a", ".HTML">> }

NarrowingInputs ==
    [fn : {"narrowing"}, prefix : UrlPrefixes, marker : UrlMarkers, region : UrlRegions,
     extra : UrlExtras, ending : UrlEndings, tail : UrlTails]

\* _is_valid_article_url(url) and _is_valid_article_url(url, place_slug) for every filter
EvalNarrowing ==
    /\ pc = "eval"
    /\ fn_in.fn = "narrowing"
    /\ fn_out' = [accepted |-> IsValidArticleUrl(UrlText(fn_in), <<>>),
                  accepting |-> { place_slug \in NarrowingSlugs :
                                    IsValidArticleUrl(UrlText(fn_in), place_slug) }]
    /\ pc' = "evaluated"
    /\ UNCHANGED <<fn_in, crawlerVars, loaderVars, batchVars, mainVars, index_page, unmerged, sessions, earlier>>

SaveInputs ==
    [fn : {"save"}, prefix : UrlPrefixes, marker : UrlMarkers, region : UrlRegions,
     extra : UrlExtras, ending : UrlEndings, tail : UrlTails]

\* _scrape_single_article_in_batch: base_name = _generate_unique_filename(url), then
\* file_paths = _save_article_batch(article, base_name)
EvalSave ==
    /\ pc = "eval"
    /\ fn_in.fn = "save"
    /\ LET url == urlparse(UrlText(fn_in))
           base_name == _generate_unique_filename(url)
       IN  fn_out' = [base_name |-> base_name,
                      file_paths |-> _save_article_batch(url, base_name)]
    /\ pc' = "evaluated"
    /\ UNCHANGED <<fn_in, crawlerVars, loaderVars, batchVars, mainVars, index_page, unmerged, sessions, earlier>>

\* the calls of one item's scrape that can raise, in the order they are made:
\* _scrape_single_article_in_batch (goto), _scrape_page (its own goto to
\* build_article), _save_article_batch (mkdir to write md)
ItemSteps ==
    << "goto", "_scrape_page goto", "scroll", "wait_for_selector", "content",
       "evaluate", "build_article",
       "mkdir", "open json", "dump json", "open html", "write html",
       "generate_markdown", "open md", "write md" >>

\* _save_article_batch: output_subdir.mkdir is called only "if region"
Applies(step, url) == step = "mkdir" => Region(url) # <<>>

\* what a step that returns leaves in the output directory: mkdir the region's
\* directory, open(path, "w") the file
Effect(step, url, disk) ==
    LET paths == _save_article_batch(url, _generate_unique_filename(url))
    IN  CASE step = "mkdir" -> disk \cup { [kind |-> "dir", path |-> <<Region(url)>>] }
          [] step = "open json" -> disk \cup { [kind |-> "json", path |-> paths.json] }
          [] step = "open html" -> disk \cup { [kind |-> "html", path |-> paths.html] }
          [] step = "open md" -> disk \cup { [kind |-> "md", path |-> paths.md] }
          [] OTHER -> disk

\* _scrape_page (lines 138-141): try: page.wait_for_selector("h1", timeout=20000)
\* except Exception: print a warning
Swallowed == {"wait_for_selector"}

\* the steps from ItemSteps[i] on, raising the steps to raise: the step that ended the
\* try block of _scrape_single_article_in_batch ("none": its end was reached), and
\* what the output directory holds then
RECURSIVE RunSteps(_, _, _, _)
RunSteps(i, url, raising, disk) ==
    IF i > Len(ItemSteps) THEN [error |-> "none", disk |-> disk]
    ELSE IF ~Applies(ItemSteps[i], url) THEN RunSteps(i + 1, url, raising, disk)
    ELSE IF ItemSteps[i] \in raising
         THEN IF ItemSteps[i] \in Swallowed
              THEN RunSteps(i + 1, url, raising, disk)
              ELSE [error |-> ItemSteps[i], disk |-> disk]
         ELSE RunSteps(i + 1, url, raising, Effect(ItemSteps[i], url, disk))

\* the most steps of one item that raise
MaxRaising == 2

ScrapeItemInputs ==
    [fn : {"scrape_item"}, prefix : UrlPrefixes, marker : { <<"/", "places-to-go">> },
     region : { <<"/", "africa">> }, extra : {<<>>},
     ending : { <<"/", "a", ".html">> }, tail : {<<>>},
     raising : { r \in SUBSET Range(ItemSteps) : Cardinality(r) <= MaxRaising }]

\* _scrape_single_article_in_batch(page, url) on an empty output directory: the
\* result it returns and what the output directory holds afterwards
EvalScrapeItem ==
    /\ pc = "eval"
    /\ fn_in.fn = "scrape_item"
    /\ LET url == urlparse(UrlText(fn_in))
       IN  fn_out' = [result |-> _scrape_single_article_in_batch(url,
                                    RunSteps(1, url, fn_in.raising, {}).error),
                      disk |-> RunSteps(1, url, fn_in.raising, {}).disk]
    /\ pc' = "evaluated"
    /\ UNCHANGED <<fn_in, crawlerVars, loaderVars, batchVars, mainVars, index_page, unmerged, sessions, earlier>>

ClickInputs == [fn : {"click"}, page : RevealPages]

\* _click_see_more(page), and where _load_all_articles goes with what it returned
EvalClick ==
    /\ pc = "eval"
    /\ fn_in.fn = "click"
    /\ fn_out' = [report |-> _click_see_more(fn_in.page),
                  next |-> AfterClick(_click_see_more(fn_in.page).clicked)]
    /\ pc' = "evaluated"
    /\ UNCHANGED <<fn_in, crawlerVars, loaderVars, batchVars, mainVars, index_page, unmerged, sessions, earlier>>

PureInputs ==
    NormalizeInputs \cup IsValidInputs \cup NarrowingInputs \cup SaveInputs
        \cup ClickInputs \cup ScrapeItemInputs

InitPure ==
    /\ pc = "eval"
    /\ Constructed
    /\ args = NoArgs
    /\ NoMain
    /\ fn_in \in PureInputs
    /\ fn_out = <<>>

NextPure ==
    \/ EvalNormalize
    \/ EvalIsValid
    \/ EvalNarrowing
    \/ EvalSave
    \/ EvalClick
    \/ EvalScrapeItem

PureSpec == InitPure /\ [][NextPure]_vars

(***************************************************************************)
(* Properties                                                              *)
(***************************************************************************)
\* position of the first occurrence of x in s
Pos(s, x) == CHOOSE i \in 1..Len(s) : s[i] = x /\ \A j \in 1..(i - 1) : s[j] # x

NoDuplicates(s) == Cardinality(Range(s)) = Len(s)

BatchReturned == call.op = "scrape_batch" /\ pc = "done" /\ outcome.kind = "returned"

\* C1 (batch isolation): whichever items fail with an ordinary exception,
\* scrape_batch returns one result per URL of the batch, result i is that of
\* URL i, and an item no step of which failed has the result of a success,
\* with the paths its URL alone determines.
C1_BatchIsolation ==
    BatchReturned =>
        /\ Len(results) = Len(valid_urls)
        /\ outcome.value = results
        /\ \A i \in 1..Len(results) :
            /\ results[i].url = valid_urls[i]
            /\ faults[i] = "none" =>
                 /\ results[i].success
                 /\ results[i].error = "None"
                 /\ results[i].file_paths =
                      _save_article_batch(valid_urls[i],
                                          _generate_unique_filename(valid_urls[i]))

\* a batch of two that returned: the first item failed, the second did not
C1_Witness ==
    /\ BatchReturned
    /\ Len(results) = 2
    /\ faults[1] = "goto"
    /\ faults[2] = "none"
    /\ results[2].success

\* C2 (failure as data): an item one step of which raised has success = false,
\* the exception's text as error and no file paths; a result with success =
\* true has no error and the paths of json, html and md; and no Exception of
\* an item's scrape leaves scrape_batch.
C2_FailureIsData ==
    /\ \A i \in 1..Len(results) :
        /\ faults[i] # "none" =>
             /\ ~results[i].success
             /\ results[i].error = faults[i]
             /\ results[i].file_paths = <<>>
        /\ results[i].success =>
             /\ results[i].error = "None"
             /\ DOMAIN results[i].file_paths = {"json", "html", "md"}
    /\ thrown.at = "scrape" => thrown.exc = "KeyboardInterrupt"

\* a batch that returned with an item that failed while saving and one that succeeded
C2_Witness ==
    /\ BatchReturned
    /\ Len(results) = 2
    /\ faults[1] = "none" /\ results[1].success
    /\ faults[2] = "save" /\ ~results[2].success

GetArticleUrlsReturned ==
    call.op = "get_article_urls" /\ pc = "done" /\ outcome.kind = "returned"

\* C3 (discovery order): get_article_urls returns the valid URLs in the order
\* in which they were first extracted: a precedes b in the list iff a was
\* first extracted before b.
C3_DiscoveryOrder ==
    GetArticleUrlsReturned =>
        \A i, j \in 1..Len(outcome.value) :
            i < j <=> Pos(discovery, outcome.value[i]) < Pos(discovery, outcome.value[j])

\* C4 (partition): after crawl_listing, valid_urls and skipped_urls partition
\* the discovered URLs, valid_urls holds those the article predicate accepts
\* under the filter, no URL is listed twice, total_found is the sum of the two
\* lengths, and get_article_urls returns valid_urls.
C4_Partition ==
    GetArticleUrlsReturned =>
        LET valid == state.valid_urls
            skipped == state.skipped_urls
            found == Range(discovery)
        IN  /\ Range(valid) \cup Range(skipped) = found
            /\ Range(valid) \cap Range(skipped) = {}
            /\ Range(valid) = { u \in found : _is_valid_article_url(u, call.place_slug) }
            /\ NoDuplicates(valid)
            /\ NoDuplicates(skipped)
            /\ state.total_found = Len(valid) + Len(skipped)
            /\ outcome.value = valid

\* a filtered discovery that found a valid and a skipped URL
C4_Witness ==
    /\ GetArticleUrlsReturned
    /\ call.place_slug = "africa"
    /\ state.valid_urls # <<>>
    /\ state.skipped_urls # <<>>
    /\ state.total_found = 3

\* C5 (max_articles): with max_articles = N given (N >= 0, 0 included) and M
\* valid URLs discovered, the batch is the first min(N, M) URLs of the
\* discovered sequence, in that order, and as many results are returned.
C5_MaxArticles ==
    (call.op = "scrape_batch" /\ pc \in {"progress", "scrape", "done"}
        /\ call.max_articles # None /\ thrown.at \notin {"launch", "goto listing", "evaluate"}) =>
        LET N == call.max_articles[1]
            M == Len(state.valid_urls)
        IN  /\ valid_urls = SubSeq(state.valid_urls, 1, Min(N, M))
            /\ outcome.kind = "returned" => Len(outcome.value) = Min(N, M)

\* C6 (ceiling): the reveals of one run never exceed max_attempts, and a run
\* every reveal of which succeeded and gave strictly more links than were
\* known ends, with a normal return, exactly when max_attempts reveals are made.
C6_Ceiling ==
    /\ attempts <= max_attempts
    /\ reveals <= max_attempts
    /\ cycles <= max_attempts
    /\ (pc = "loaded" /\ allMore) =>
            /\ attempts = max_attempts
            /\ reveals = max_attempts
            /\ outcome.kind = "none"

\* the loader has stopped at the ceiling after reveals that all gave more links
C6_Witness ==
    /\ pc = "loaded"
    /\ allMore
    /\ attempts = max_attempts
    /\ cycles = max_attempts

\* C7 (termination at stagnation): when N reveals add links and every later
\* one adds none, the loader ends within N + 1 extract cycles. The first
\* click that adds nothing is made in cycle N + 1, so the claim is that no
\* cycle is begun after it.
C7_StopsAtStagnation == ~overrun

\* C8 (fatal navigation): a failure of the navigation to the listing page or
\* the index page ends the operation with that very exception, no list is
\* returned, and in scrape_batch no item is attempted and no results returned.
C8_NavigationFatal ==
    thrown.at \in {"goto listing", "goto index"} =>
        /\ pc = "done"
        /\ outcome = Raised(thrown.exc)
        /\ results = <<>>
        /\ faults = <<>>
        /\ progress_calls = <<>>

\* scrape_batch has ended on the failure of the navigation to the listing page
C8_Witness ==
    /\ call.op = "scrape_batch"
    /\ pc = "done"
    /\ thrown = [exc |-> "Error", at |-> "goto listing"]
    /\ outcome.kind = "raised"

\* C9 (sessions closed): when get_article_urls, get_place_urls or scrape_batch
\* has ended, by return, exception or interrupt, no browser it launched is
\* open; and the discovery browser of scrape_batch is closed once discovery
\* has returned.
C9_SessionsClosed ==
    /\ pc = "done" => open_browsers = {}
    /\ pc \in {"batch", "progress", "scrape"} => "discovery" \notin open_browsers

\* scrape_batch has ended on an interrupt that arrived during an item's scrape
C9_Witness ==
    /\ call.op = "scrape_batch"
    /\ pc = "done"
    /\ thrown = [exc |-> "KeyboardInterrupt", at |-> "scrape"]
    /\ open_browsers = {}

\* C10 (progress callback): a callback supplied is called once per URL
\* attempted, the call for item i with (i, total, url_i), after result i - 1
\* was appended and before the scrape of item i; with none supplied, no call.
C10_ProgressCalls ==
    call.op = "scrape_batch" =>
        /\ ~call.progress_callback => progress_calls = <<>>
        /\ call.progress_callback =>
            /\ \A k \in 1..Len(progress_calls) :
                progress_calls[k] = [current |-> k, total |-> Len(valid_urls),
                                     url |-> valid_urls[k],
                                     appended |-> k - 1, scraped |-> k - 1]
            /\ pc = "scrape" => Len(progress_calls) = Len(faults) + 1
            /\ pc = "progress" => Len(progress_calls) = Len(faults)
            /\ BatchReturned => Len(progress_calls) = Len(results)

\* a batch of two with a callback has returned
C10_Witness ==
    /\ BatchReturned
    /\ call.progress_callback
    /\ Len(progress_calls) = 2
    /\ Len(results) = 2

\* C11 (taxonomy filter): a call of scrape_batch that is given a place slug is
\* accepted, runs its discovery with that slug as filter and, when it returns,
\* returns only results whose URL has /slug/ in its path.
C11_TaxonomyFilter ==
    (mode \in PlaceModes /\ call.op = "scrape_batch") =>
        /\ thrown.exc # "TypeError"
        /\ <<call.place_slug>> = Head(place_queue)[1]
        /\ (pc = "done" /\ outcome.kind = "returned") =>
                \A i \in 1..Len(outcome.value) :
                    Contains(Lower(outcome.value[i].url.path),
                             <<"/">> \o Lower(Head(place_queue)[1]) \o <<"/">>)

\* C12 (multi-place exit code): when main has exited in all-places or
\* specific-places mode after at least one place was found, and no call into
\* the browser raised, every place found was batch-scraped and the exit code
\* is 0 if no item failed, 1 if items were attempted and all failed, 2 if some
\* but not all failed.
C12_PlacesExitCode ==
    (/\ pc = "exited"
     /\ mode \in PlaceModes
     /\ (place_queue # <<>> \/ all_results # <<>>)
     /\ thrown.at \in {"", "scrape_batch"}) =>
        LET items == AllItems(all_results)
            failed == { i \in 1..Len(items) : ~items[i].success }
        IN  /\ place_queue = <<>>
            /\ failed = {} => exit_code = <<0>>
            /\ (items # <<>> /\ failed = DOMAIN items) => exit_code = <<1>>
            /\ (failed # {} /\ failed # DOMAIN items) => exit_code = <<2>>

\* C13 (batch exit code): when main has exited in batch mode, the exit code
\* is 0 exactly when scrape_batch returned and no result is a failure (none at
\* all included), 1 when it returned results that are all failures, 2 when it
\* returned failures and successes, and 1 when an Exception left scrape_batch.
C13_BatchExitCode ==
    (pc = "exited" /\ mode = "batch") =>
        LET rs == outcome.value
            failed == { i \in 1..Len(rs) : ~rs[i].success }
            succeeded == { i \in 1..Len(rs) : rs[i].success }
        IN  /\ outcome.kind = "returned" =>
                /\ exit_code = <<0>> <=> failed = {}
                /\ exit_code = <<1>> <=> (failed # {} /\ succeeded = {})
                /\ exit_code = <<2>> <=> (failed # {} /\ succeeded # {})
            /\ (outcome.kind = "raised" /\ outcome.exc # "KeyboardInterrupt") =>
                exit_code = <<1>>
            /\ exit_code # None

\* main has exited with 2 in batch mode, on a failure followed by a success
C13_Witness ==
    /\ pc = "exited"
    /\ mode = "batch"
    /\ outcome.kind = "returned"
    /\ Len(outcome.value) = 2
    /\ ~outcome.value[1].success
    /\ outcome.value[2].success
    /\ exit_code = <<2>>

\* main has exited with 0 in batch mode on an empty result sequence
C13_WitnessEmpty ==
    /\ pc = "exited"
    /\ mode = "batch"
    /\ outcome = Returned(<<>>)
    /\ exit_code = <<0>>

\* C14 (mode precedence): once main has determined the mode, it is the one
\* mode of highest precedence among those whose flag was given (single URL,
\* then listing/batch, then all places, then specific places), all places
\* when no flag was given, and the calls main makes are that mode's.
C14_ModePrecedence ==
    mode # "none" =>
        LET single == args.url
            batch == args.listing_url \/ args.batch
            places == args.places # None
        IN  /\ mode \in {"single", "batch", "all_places", "specific_places"}
            /\ mode = "single" <=> single
            /\ mode = "batch" <=> (~single /\ batch)
            /\ mode = "all_places" <=>
                    (~single /\ ~batch /\ (args.all_places \/ ~places))
            /\ mode = "specific_places" <=>
                    (~single /\ ~batch /\ ~args.all_places /\ places)
            /\ mode = "single" => call = NoCall
            /\ mode = "batch" => call.op \in {"none", "scrape_batch"}
            /\ call.op = "get_place_urls" => mode \in PlaceModes
            /\ call.op = "scrape_batch" =>
                    (mode = "batch" \/ (mode \in PlaceModes /\ place_queue # <<>>))
            /\ thrown.at = "scrape_and_save" => mode = "single"

\* batch mode has begun its call although --all-places and --places were given too
C14_Witness ==
    /\ ~args.url
    /\ args.batch
    /\ args.all_places
    /\ args.places # None
    /\ mode = "batch"
    /\ call.op = "scrape_batch"

\* C15: two hrefs of one page that are the same text up to the query string and the
\* fragment, or that resolve against the page's URL to the same scheme, host and path,
\* are normalized to the identical text, which is scheme://host/path without query or
\* fragment; and normalizing a normalized text gives it back.
C15_Normalization ==
    (pc = "evaluated" /\ fn_in.fn = "normalize") =>
        LET Stem(href) == SubSeq(href, 1, Find(href, {"?", "#"}) - 1)
            Resolved(href) == urlparse(urljoin(fn_in.base_url, href))
            first == Resolved(fn_in.href)
            second == Resolved(fn_in.other)
        IN  /\ Stem(fn_in.href) = Stem(fn_in.other) => fn_out.first = fn_out.second
            /\ ( /\ first.scheme = second.scheme
                 /\ first.netloc = second.netloc
                 /\ first.path = second.path ) => fn_out.first = fn_out.second
            /\ fn_out.first = <<first.scheme, ":", "//", first.netloc>> \o first.path
            /\ first.scheme \in {"https", "http"}
            /\ first.netloc = "www.united.com"
            /\ first.path # <<>> /\ first.path[1] = "/"
            /\ \A i \in 1..Len(fn_out.first) : fn_out.first[i] \notin {"?", "#", "q=1", "top", "p=1", "list"}
            /\ fn_out.again = fn_out.first

C15_Witness ==
    /\ pc = "evaluated"
    /\ fn_in.fn = "normalize"
    /\ fn_in.href = <<"..", "/", "africa", "/", "a", ".html", "#", "top">>
    /\ fn_in.other = hostText \o pathA \o <<"?", "q=1">>
    /\ fn_out.first = hostText \o pathA
    /\ fn_out.second = fn_out.first
    /\ fn_out.again = fn_out.first

\* C16: the article predicate is true exactly when the lower-cased path has the segment
\* places-to-go followed by "/", has no segment things-to-do followed by "/", has, when
\* a filter is set, a segment followed by "/" that is the filter up to case, and ends in
\* a file name with the suffix .html other than index.html; so it is false for a URL
\* with both markers under every filter.
C16_ArticlePredicate ==
    (pc = "evaluated" /\ fn_in.fn = "is_valid") =>
        LET dirs == { Lower(Tail(d)) :
                        d \in {fn_in.prefix, fn_in.marker, fn_in.region, fn_in.extra}
                                \ {<<>>} }
                    \cup (IF fn_in.ending = <<"/", "a", ".html", "/">>
                          THEN {<<"a", ".html">>} ELSE {})
            hasRoot == fn_in.marker # <<>>
            hasOther == fn_in.extra # <<>>
            filtered == fn_in.place_slug # <<>>
            article == fn_in.ending \in {<<"/", "a", ".html">>, <<"/", "a", ".HTML">>}
        IN  /\ fn_out \in BOOLEAN
            /\ fn_out <=> ( /\ hasRoot
                            /\ ~hasOther
                            /\ filtered => Lower(fn_in.place_slug) \in dirs
                            /\ article )
            /\ (hasRoot /\ hasOther) => ~fn_out

C16_Witness ==
    /\ pc = "evaluated"
    /\ fn_in.fn = "is_valid"
    /\ UrlText(fn_in) = hostText \o <<"/", "en", "/", "Places-To-Go", "/", "africa", "/", "a", ".HTML">>
    /\ fn_in.place_slug = <<"Africa">>
    /\ fn_out = TRUE

\* C17, as stated: a URL accepted with no filter is accepted with the segment that
\* follows the places-to-go segment as filter, and some other filter rejects it.
C17_NarrowingAnySegment ==
    (pc = "evaluated" /\ fn_in.fn = "narrowing" /\ fn_out.accepted) =>
        LET path == urlparse(UrlText(fn_in)).path
            after == LastPart(Lower(path), <<"/", "places-to-go", "/">>)
            own == Split(SubSeq(path, Len(path) - Len(after) + 1, Len(path)))[1]
        IN  /\ own \in fn_out.accepting
            /\ \E other \in NarrowingSlugs \ {own} : other \notin fn_out.accepting

\* C17: a URL accepted with no filter, in whose path the segment that follows the
\* places-to-go segment is a directory (is followed by "/"), is accepted with that
\* segment as filter, and some other filter rejects it.
C17_Narrowing ==
    (pc = "evaluated" /\ fn_in.fn = "narrowing" /\ fn_out.accepted) =>
        LET path == urlparse(UrlText(fn_in)).path
            after == LastPart(Lower(path), <<"/", "places-to-go", "/">>)
            parts == Split(SubSeq(path, Len(path) - Len(after) + 1, Len(path)))
            own == parts[1]
        IN  Len(parts) >= 2 =>
                /\ own \in fn_out.accepting
                /\ \E other \in NarrowingSlugs \ {own} : other \notin fn_out.accepting

C17_Witness ==
    /\ pc = "evaluated"
    /\ fn_in.fn = "narrowing"
    /\ UrlText(fn_in) = hostText \o <<"/", "en", "/", "places-to-go", "/", "Africa", "/", "a", ".html">>
    /\ fn_out.accepted
    /\ <<"Africa">> \in fn_out.accepting
    /\ <<"asia">> \notin fn_out.accepting

\* C18: for an article URL whose path has the segment places-to-go followed by a
\* segment r, the three files are <output>/r/<slug>.json, .html and .md, where slug is
\* the last segment of the path without its .html.
C18_RegionDirectory ==
    ( /\ pc = "evaluated"
      /\ fn_in.fn = "save"
      /\ fn_in.marker = <<"/", "places-to-go">>
      /\ fn_in.region # <<>>
      /\ fn_in.extra = <<>>
      /\ fn_in.ending = <<"/", "a", ".html">> ) =>
        LET r == Tail(fn_in.region)
            slug == <<"a">>
        IN  /\ fn_out.base_name = slug
            /\ fn_out.file_paths = [json |-> <<r, slug, ".json">>,
                                    html |-> <<r, slug, ".html">>,
                                    md |-> <<r, slug, ".md">>]

\* C19: when get_place_urls has returned, the index page was navigated to once, no
\* reveal click and no loader cycle was made, and the value is the normalized URLs of
\* the anchors whose href holds /places-to-go/ and /index.html: every one of them,
\* nothing else, none twice, in the order of their first occurrence on the page.
C19_PlaceUrls ==
    (call.op = "get_place_urls" /\ pc = "done" /\ outcome.kind = "returned") =>
        LET anchors == index_page.anchors
            value == outcome.value
            Matches(a) == /\ Contains(a.path, <<"/", "places-to-go", "/">>)
                          /\ Contains(a.path, <<"/", "index", ".html">>)
            Url(a) == [scheme |-> a.scheme, netloc |-> a.netloc, path |-> a.path]
            First(u) == CHOOSE k \in 1..Len(anchors) :
                            /\ Matches(anchors[k]) /\ Url(anchors[k]) = u
                            /\ \A j \in 1..(k - 1) :
                                    ~(Matches(anchors[j]) /\ Url(anchors[j]) = u)
        IN  /\ index_page.navigations = 1
            /\ reveals = 0 /\ cycles = 0 /\ attempts = 0
            /\ Range(value) = { Url(anchors[k]) : k \in { i \in 1..Len(anchors) : Matches(anchors[i]) } }
            /\ \A i, j \in 1..Len(value) : i # j => value[i] # value[j]
            /\ \A i, j \in 1..Len(value) : i < j => First(value[i]) < First(value[j])

C19_Witness ==
    /\ call.op = "get_place_urls"
    /\ pc = "done"
    /\ outcome.kind = "returned"
    /\ index_page.anchors = <<Href("https", pathIB, "", ""), Href("https", pathIA, "", "top")>>
    /\ outcome.value = <<Normalize(Href("https", pathIB, "", "")),
                         Normalize(Href("https", pathIA, "", ""))>>

C19_WitnessOnce ==
    /\ call.op = "get_place_urls"
    /\ pc = "done"
    /\ outcome.kind = "returned"
    /\ index_page.anchors = <<Href("https", pathIA, "", ""), Href("https", pathIA, "", "top")>>
    /\ Len(outcome.value) = 1

\* C20: a step of the loader that follows a reveal click that succeeded, and whose
\* extraction is the first not to return strictly more links than were known before
\* the click, ends the loop: the loader goes on to its return, without a further
\* attempt and without an exception.
C20_InertControl ==
    [][(pc = "reveal" /\ allMore /\ ~allMore') =>
            (pc' = "loaded" /\ attempts' = attempts /\ outcome' = outcome)]_vars

\* C21: the list the loader returns holds every normalized link that an extraction of
\* the run returned, those of the extractions made after a reveal click included.
C21_NothingLost ==
    pc = "categorize" => unmerged \subseteq Range(listed_urls)

\* C22: an exception raised inside the reveal loop by a link extraction (or by the wait
\* after a click) does not leave get_article_urls: discovery ends with a list returned.
C22_LoopFailureIsStop ==
    (call.op = "get_article_urls" /\ thrown.at = "evaluate" /\ thrown.exc = "Error") =>
        (pc = "done" => outcome.kind = "returned")

\* C23: a reveal attempt returns a boolean and no exception leaves it; the strategies
\* are tried in the order of the list; one that finds nothing to click or raises is
\* followed by the next; the attempt returns True at the first strategy that clicks and
\* tries none after it; when no strategy clicks the scripted fallback is tried last and
\* its answer (False when it raises) is returned; on False the loader leaves its loop
\* for its return.
C23_RevealNeverRaises ==
    (pc = "evaluated" /\ fn_in.fn = "click") =>
        LET page == fn_in.page
            report == fn_out.report
            n == Len(selectors)
            clicking == { i \in 1..n : page.strategies[i] = "clicks" }
            first == CHOOSE i \in clicking : \A j \in clicking : i <= j
        IN  /\ report.clicked \in BOOLEAN
            /\ ~report.raised
            /\ \A k \in 1..Len(report.tried) : report.tried[k] = k
            /\ clicking # {} => (report.clicked /\ Len(report.tried) = first)
            /\ clicking = {} =>
                    /\ Len(report.tried) = n + 1
                    /\ report.clicked <=> page.fallback = "true"
            /\ fn_out.next = (IF report.clicked THEN "reveal" ELSE "loaded")

C23_Witness ==
    /\ pc = "evaluated"
    /\ fn_in.fn = "click"
    /\ fn_in.page.strategies[1] = "count raises"
    /\ fn_in.page.strategies[2] = "absent"
    /\ fn_in.page.strategies[3] = "clicks"
    /\ fn_out.report = [clicked |-> TRUE, tried |-> <<1, 2, 3>>, raised |-> FALSE]
    /\ fn_out.next = "reveal"

C23_WitnessAllFail ==
    /\ pc = "evaluated"
    /\ fn_in.fn = "click"
    /\ fn_in.page.strategies = [i \in 1..Len(selectors) |-> "click raises"]
    /\ fn_in.page.fallback = "raises"
    /\ fn_out.report.clicked = FALSE
    /\ Len(fn_out.report.tried) = Len(selectors) + 1
    /\ fn_out.next = "loaded"

\* the browsers launched for the scrape loop
BatchSessions == { i \in 1..Len(sessions) : sessions[i].kind = "batch" }

\* C24: during scrape_batch at most one browser is open at any time; the discovery
\* browser is the first launched and is closed when the browser of the scrape loop is
\* launched; the scrape loop has exactly one browser, launched before the first item
\* whatever the number of URLs, and every item is scraped through its page.
C24_OneScrapeSession ==
    call.op = "scrape_batch" =>
        /\ Cardinality(open_browsers) <= 1
        /\ Cardinality(BatchSessions) <= 1
        /\ \A i \in 1..Len(sessions) : sessions[i].kind = "discovery" <=> i = 1
        /\ \A i \in 1..Len(sessions) : sessions[i].kind = "discovery" => sessions[i].scraped = 0
        /\ pc \in {"progress", "scrape"} =>
                /\ open_browsers = {"batch"}
                /\ Cardinality(BatchSessions) = 1
        /\ (Len(faults) > 0 \/ BatchReturned) =>
                /\ Cardinality(BatchSessions) = 1
                /\ \A i \in BatchSessions : sessions[i].scraped = Len(faults)

C24_Witness ==
    /\ BatchReturned
    /\ Len(results) >= 2
    /\ sessions = << [kind |-> "discovery", scraped |-> 0],
                     [kind |-> "batch", scraped |-> Len(results)] >>
    /\ open_browsers = {}

C24_WitnessNoUrls ==
    /\ BatchReturned
    /\ valid_urls = <<>>
    /\ Cardinality(BatchSessions) = 1

\* the json, html and md files among what the output directory holds
Artifacts(disk) == { f \in disk : f.kind \in {"json", "html", "md"} }

\* C25: when the wait for the article heading (wait_for_selector("h1"), 20 s) times
\* out, the scrape of the item fails: its result has success = false and an error,
\* and no artifact of it is in the output directory.
C25_HeadingTimeoutFails ==
    (pc = "evaluated" /\ fn_in.fn = "scrape_item"
        /\ "wait_for_selector" \in fn_in.raising) =>
            /\ ~fn_out.result.success
            /\ fn_out.result.error # "None"
            /\ Artifacts(fn_out.disk) = {}

\* C28: an item whose result has success = false has left none of its json, html and
\* md files in the output directory, whichever step failed.
C28_FailedItemWritesNothing ==
    (pc = "evaluated" /\ fn_in.fn = "scrape_item" /\ ~fn_out.result.success) =>
        Artifacts(fn_out.disk) = {}

\* crawl_listing ends with "return self.state": the object an earlier call returned is
\* the crawler's state itself, and reads as the state reads now
ReturnedObject(i) == state

\* the state of the crawler as the running call began
EntryState == IF earlier = <<>> THEN NewState ELSE earlier[Len(earlier)].state

\* C26: when a call of crawl_listing on a crawler has returned, whatever calls were
\* made on it before, processed has exactly the URLs of this call's valid_urls, each
\* pending, remaining equals valid_urls, and the state each earlier call returned
\* still reads as it did when that call returned.
C26_FreshState ==
    (pc = "done" /\ call.op = "get_article_urls" /\ outcome.kind = "returned") =>
        /\ DOMAIN state.processed = Range(state.valid_urls)
        /\ \A u \in DOMAIN state.processed : state.processed[u] = "pending"
        /\ state.remaining = state.valid_urls
        /\ \A i \in 1..Len(earlier) :
                earlier[i].outcome = "returned" => ReturnedObject(i) = earlier[i].state

\* C30: when crawl_listing has raised (navigation or extraction), every field of the
\* crawler's state has the value it had as the call began.
C30_FailedCrawlKeepsState ==
    (pc = "done" /\ call.op = "get_article_urls" /\ outcome.kind = "raised"
        /\ thrown.at \in {"goto listing", "evaluate"}) =>
            state = EntryState

\* C27: in batch mode, an interrupt that arrives while item k is scraped leaves item k
\* without a result (the results so far are those of the items before k), closes the
\* browser, ends scrape_batch with the interrupt and no result sequence, and main
\* exits with 130.
C27_InterruptAbortsBatch ==
    /\ (mode = "batch" /\ pc = "exited" /\ faults # <<>>
            /\ faults[Len(faults)] = "KeyboardInterrupt") =>
        /\ exit_code = <<130>>
        /\ outcome = Raised("KeyboardInterrupt")
    /\ (mode = "batch" /\ thrown = [exc |-> "KeyboardInterrupt", at |-> "scrape"]) =>
        /\ pc \in {"done", "exited"}
        /\ Len(results) = Len(faults) - 1
        /\ faults[Len(faults)] = "KeyboardInterrupt"
        /\ \A i \in 1..Len(results) :
                results[i].url = valid_urls[i] /\ faults[i] # "KeyboardInterrupt"
        /\ open_browsers = {}
        /\ outcome = Raised("KeyboardInterrupt")
        /\ pc = "exited" => exit_code = <<130>>

\* main has exited with 130 on an interrupt during the second item of a batch
C27_Witness ==
    /\ mode = "batch"
    /\ pc = "exited"
    /\ thrown = [exc |-> "KeyboardInterrupt", at |-> "scrape"]
    /\ Len(results) = 1
    /\ results[1].success
    /\ Len(valid_urls) >= 2
    /\ exit_code = <<130>>
    /\ open_browsers = {}

\* C29: when the progress callback raises at its call for item k, scrape_batch ends
\* with that exception and returns no result sequence, no browser is open, and item k
\* and the items after it are not scraped: k - 1 items were scraped and have a result.
C29_CallbackFailureAborts ==
    (call.op = "scrape_batch" /\ thrown.at = "progress_callback") =>
        /\ pc = "done"
        /\ outcome = Raised(thrown.exc)
        /\ open_browsers = {}
        /\ Len(progress_calls) >= 1
        /\ Len(faults) = Len(progress_calls) - 1
        /\ Len(results) = Len(progress_calls) - 1
        /\ Len(results) < Len(valid_urls)

\* the callback raised at its call for the second item of a batch
C29_Witness ==
    /\ call.op = "scrape_batch"
    /\ pc = "done"
    /\ thrown = [exc |-> "Error", at |-> "progress_callback"]
    /\ Len(progress_calls) = 2
    /\ Len(results) = 1
    /\ Len(valid_urls) >= 2
    /\ outcome.kind = "raised"
    /\ open_browsers = {}
====
